---------------------------- MODULE Spec2Model ----------------------------
(***************************************************************************)
(* Model of the MRTK feature tool engine (src/core_logic.cpp): the         *)
(* version comparator, the catalog fetch, the recursive dependency walk,   *)
(* the download phase and the manifest installer.                          *)
(*                                                                         *)
(* A std::string is a sequence of one-character strings, so that find,     *)
(* substr, getline, stoi, starts_with and the regular expression of        *)
(* extractComponentInfo are computed character by character as the code    *)
(* computes them.                                                          *)
(***************************************************************************)
EXTENDS Integers, Sequences, FiniteSets, TLC

(***************************************************************************)
(* Characters and std::string primitives                                   *)
(***************************************************************************)

Digits == <<"0", "1", "2", "3", "4", "5", "6", "7", "8", "9">>

Letters ==
  <<"a", "b", "c", "d", "e", "f", "g", "h", "i", "j", "k", "l", "m",
    "n", "o", "p", "q", "r", "s", "t", "u", "v", "w", "x", "y", "z">>

\* The first position of c in s at or after i (1-based), or 0.
RECURSIVE FindFrom(_, _, _)
FindFrom(s, c, i) ==
  IF i > Len(s) THEN 0
  ELSE IF s[i] = c THEN i
  ELSE FindFrom(s, c, i + 1)

\* The last position of c in s at or before i, or 0.
RECURSIVE FindBackFrom(_, _, _)
FindBackFrom(s, c, i) ==
  IF i < 1 THEN 0
  ELSE IF s[i] = c THEN i
  ELSE FindBackFrom(s, c, i - 1)

IndexIn(c, chars) == FindFrom(chars, c, 1)

\* ::isdigit
IsDigit(c) == IndexIn(c, Digits) > 0

DigitVal(c) == IndexIn(c, Digits) - 1

\* The character code (ASCII) that std::string's operator< compares.
CharCode(c) ==
  IF IsDigit(c) THEN 48 + DigitVal(c)
  ELSE IF IndexIn(c, Letters) > 0 THEN 96 + IndexIn(c, Letters)
  ELSE CASE c = " " -> 32
         [] c = "+" -> 43
         [] c = "-" -> 45
         [] c = "." -> 46
         [] c = "/" -> 47
         [] c = "_" -> 95
         [] OTHER -> 63

\* std::string::npos, as the position one before the first.
Npos == 0

\* s.find(c): the first position of c in s (1-based), or Npos.
Find(s, c) == FindFrom(s, c, 1)

\* s.find_last_of(c)
FindLastOf(s, c) == FindBackFrom(s, c, Len(s))

\* s.substr(0, pos) with pos a position returned by find: npos keeps all of s.
Before(s, pos) == IF pos = Npos THEN s ELSE SubSeq(s, 1, pos - 1)

\* s.substr(pos + 1) with pos a position returned by find.
After(s, pos) == SubSeq(s, pos + 1, Len(s))

\* s.starts_with(p)
StartsWith(s, p) == Len(s) >= Len(p) /\ SubSeq(s, 1, Len(p)) = p

\* s.ends_with(p)
EndsWith(s, p) ==
  Len(s) >= Len(p) /\ SubSeq(s, Len(s) - Len(p) + 1, Len(s)) = p

\* std::string operator< : lexicographic on character codes.
RECURSIVE StrLessFrom(_, _, _)
StrLessFrom(a, b, i) ==
  IF i > Len(b) THEN FALSE
  ELSE IF i > Len(a) THEN TRUE
  ELSE IF a[i] # b[i] THEN CharCode(a[i]) < CharCode(b[i])
  ELSE StrLessFrom(a, b, i + 1)

StrLess(a, b) == StrLessFrom(a, b, 1)

\* while (getline(ss, temp, sep)) parts.push_back(temp): the pieces between
\* separators; no piece is produced for the empty remainder after the last
\* separator (getline extracts nothing there and fails).
RECURSIVE GetlineAll(_, _)
GetlineAll(s, sep) ==
  IF s = <<>> THEN <<>>
  ELSE LET p == Find(s, sep)
       IN IF p = Npos THEN <<s>>
          ELSE <<SubSeq(s, 1, p - 1)>> \o GetlineAll(After(s, p), sep)

IntMax == 2147483647

\* The value of a run of digits, or -1 once it no longer fits an int.
RECURSIVE DigitsValue(_, _)
DigitsValue(s, acc) ==
  IF s = <<>> THEN acc
  ELSE IF acc > (IntMax - DigitVal(Head(s))) \div 10 THEN -1
  ELSE DigitsValue(Tail(s), 10 * acc + DigitVal(Head(s)))

\* The longest prefix of s made of digits.
RECURSIVE DigitPrefix(_)
DigitPrefix(s) ==
  IF s = <<>> \/ ~IsDigit(Head(s)) THEN <<>>
  ELSE <<Head(s)>> \o DigitPrefix(Tail(s))

RECURSIVE SkipSpaces(_)
SkipSpaces(s) ==
  IF s # <<>> /\ Head(s) = " " THEN SkipSpaces(Tail(s)) ELSE s

StoiOfValue(n, neg) ==
  IF n = -1 THEN [exc |-> "out_of_range", val |-> 0]
  ELSE [exc |-> "none", val |-> IF neg THEN 0 - n ELSE n]

StoiOfDigits(d, neg) ==
  IF d = <<>> THEN [exc |-> "invalid_argument", val |-> 0]
  ELSE StoiOfValue(DigitsValue(d, 0), neg)

StoiSigned(t) ==
  StoiOfDigits(DigitPrefix(IF t # <<>> /\ Head(t) \in {"+", "-"}
                           THEN Tail(t) ELSE t),
               t # <<>> /\ Head(t) = "-")

\* std::stoi(s): leading whitespace and one sign are skipped, the digits that
\* follow are converted and whatever follows them is ignored; no digit at all
\* throws std::invalid_argument, a value outside int throws std::out_of_range.
\* The result is [exc, val], exc the exception thrown or "none".
Stoi(s) == StoiSigned(SkipSpaces(s))

\* std::all_of(s.begin(), s.end(), ::isdigit) on a non-empty s
IsNumPart(s) == s # <<>> /\ \A i \in 1..Len(s) : IsDigit(s[i])

Min(a, b) == IF a < b THEN a ELSE b

(***************************************************************************)
(* MRTKToolCore::isNewerVersion                                            *)
(***************************************************************************)

\* while (getline(ss, temp, '.')) parts.push_back(std::stoi(temp)):
\* [exc, parts], exc the exception of the first std::stoi that throws.
RECURSIVE PushBackAll(_, _)
PushBack(r, rest, parts) ==
  IF r.exc # "none" THEN [exc |-> r.exc, parts |-> parts]
  ELSE PushBackAll(rest, Append(parts, r.val))

PushBackAll(strs, parts) ==
  IF strs = <<>> THEN [exc |-> "none", parts |-> parts]
  ELSE PushBack(Stoi(Head(strs)), Tail(strs), parts)

\* The loop over the shared main-sequence elements: "newer", "older" or "same".
RECURSIVE CompareParts(_, _, _, _)
CompareParts(old_parts, new_parts, i, min_len) ==
  IF i > min_len THEN "same"
  ELSE IF new_parts[i] > old_parts[i] THEN "newer"
  ELSE IF new_parts[i] < old_parts[i] THEN "older"
  ELSE CompareParts(old_parts, new_parts, i + 1, min_len)

CompareNums(old_num, new_num) ==
  IF old_num.exc # "none" THEN old_num.exc
  ELSE IF new_num.exc # "none" THEN new_num.exc
  ELSE IF new_num.val > old_num.val THEN "newer"
  ELSE IF new_num.val < old_num.val THEN "older"
  ELSE "same"

CompareStrings(old_part, new_part) ==
  IF StrLess(old_part, new_part) THEN "newer"
  ELSE IF StrLess(new_part, old_part) THEN "older"
  ELSE "same"

\* One iteration of the loop over the shared tag elements: "newer", "older",
\* "same", or the exception std::stoi throws.
CompareTagPart(old_part, new_part) ==
  IF IsNumPart(old_part) /\ IsNumPart(new_part)
  THEN CompareNums(Stoi(old_part), Stoi(new_part))
  ELSE CompareStrings(old_part, new_part)

RECURSIVE CompareTagParts(_, _, _, _)
TagStep(old_tag_parts, new_tag_parts, i, min_tag_len, r) ==
  IF r = "same"
  THEN CompareTagParts(old_tag_parts, new_tag_parts, i + 1, min_tag_len)
  ELSE r

CompareTagParts(old_tag_parts, new_tag_parts, i, min_tag_len) ==
  IF i > min_tag_len THEN "same"
  ELSE TagStep(old_tag_parts, new_tag_parts, i, min_tag_len,
               CompareTagPart(old_tag_parts[i], new_tag_parts[i]))

Returns(b) == [exc |-> "none", val |-> b]

Throws(e) == [exc |-> e, val |-> FALSE]

\* Lines 494-519, given the outcome of the loop over the tag elements.
TagVerdict(old_tag_parts, new_tag_parts, tag) ==
  IF tag = "newer" THEN Returns(TRUE)
  ELSE IF tag = "older" THEN Returns(FALSE)
  ELSE IF tag # "same" THEN Throws(tag)
  ELSE Returns(Len(new_tag_parts) > Len(old_tag_parts))

CompareTags(old_tag_parts, new_tag_parts) ==
  TagVerdict(old_tag_parts, new_tag_parts,
             CompareTagParts(old_tag_parts, new_tag_parts, 1,
                             Min(Len(old_tag_parts), Len(new_tag_parts))))

\* Lines 477-519, given the outcome of the loop over the main elements.
MainVerdict(v_old, v_new, old_pre_pos, new_pre_pos, old_parts, new_parts, main) ==
  IF main = "newer" THEN Returns(TRUE)
  ELSE IF main = "older" THEN Returns(FALSE)
  ELSE IF Len(new_parts) > Len(old_parts) THEN Returns(TRUE)
  ELSE IF Len(old_parts) > Len(new_parts) THEN Returns(FALSE)
  ELSE IF old_pre_pos # Npos /\ new_pre_pos = Npos THEN Returns(TRUE)
  ELSE IF old_pre_pos = Npos /\ new_pre_pos # Npos THEN Returns(FALSE)
  ELSE IF old_pre_pos = Npos /\ new_pre_pos = Npos THEN Returns(FALSE)
  ELSE CompareTags(GetlineAll(After(v_old, old_pre_pos), "."),
                   GetlineAll(After(v_new, new_pre_pos), "."))

\* Lines 471-476, given what the two push_back loops produce.
CompareMain(v_old, v_new, old_pre_pos, new_pre_pos, o, n) ==
  IF o.exc # "none" THEN Throws(o.exc)
  ELSE IF n.exc # "none" THEN Throws(n.exc)
  ELSE MainVerdict(v_old, v_new, old_pre_pos, new_pre_pos, o.parts, n.parts,
                   CompareParts(o.parts, n.parts, 1,
                                Min(Len(o.parts), Len(n.parts))))

\* Lines 466-475, given the positions of the first '-' of each argument.
CompareSplit(v_old, v_new, old_pre_pos, new_pre_pos) ==
  CompareMain(v_old, v_new, old_pre_pos, new_pre_pos,
              PushBackAll(GetlineAll(Before(v_old, old_pre_pos), "."), <<>>),
              PushBackAll(GetlineAll(Before(v_new, new_pre_pos), "."), <<>>))

\* bool isNewerVersion(v_old, v_new): [exc, val], exc the exception that leaves
\* the function ("none" when it returns val).
isNewerVersion(v_old, v_new) ==
  CompareSplit(v_old, v_new, Find(v_old, "-"), Find(v_new, "-"))

(***************************************************************************)
(* String constants of the program and of the modelled environment         *)
(***************************************************************************)

\* "org\.mixedrealitytoolkit\." of the asset-name regular expression
RegexNamespace ==
  <<"o", "r", "g", ".", "m", "i", "x", "e", "d", "r", "e", "a", "l", "i",
    "t", "y", "t", "o", "o", "l", "k", "i", "t", ".">>

\* depName.starts_with("org.mixedrealitytoolkit")
OwnNamespace ==
  <<"o", "r", "g", ".", "m", "i", "x", "e", "d", "r", "e", "a", "l", "i",
    "t", "y", "t", "o", "o", "l", "k", "i", "t">>

\* depName.starts_with("com.unity.")
UnityNamespace ==
  <<"c", "o", "m", ".", "u", "n", "i", "t", "y", ".">>

GraphicsTools ==
  <<"c", "o", "m", ".", "m", "i", "c", "r", "o", "s", "o", "f", "t", ".",
    "m", "r", "t", "k", ".", "g", "r", "a", "p", "h", "i", "c", "s", "t",
    "o", "o", "l", "s", ".", "u", "n", "i", "t", "y">>

TgzExt ==
  <<".", "t", "g", "z">>

PreTag ==
  <<"-", "p", "r", "e", ".">>

OpenXrMicrosoft ==
  <<"c", "o", "m", ".", "m", "i", "c", "r", "o", "s", "o", "f", "t", ".",
    "m", "i", "x", "e", "d", "r", "e", "a", "l", "i", "t", "y", ".", "o",
    "p", "e", "n", "x", "r">>

OpenXrMeta ==
  <<"c", "o", "m", ".", "u", "n", "i", "t", "y", ".", "x", "r", ".", "m",
    "e", "t", "a", "-", "o", "p", "e", "n", "x", "r">>

TempFile ==
  <<"t", "e", "m", "p", "_", "d", "e", "p", "e", "n", "d", "e", "n", "c",
    "y", "_", "c", "h", "e", "c", "k", ".", "t", "g", "z">>

FilePrefix ==
  <<"f", "i", "l", "e", ":", "M", "i", "x", "e", "d", "R", "e", "a", "l",
    "i", "t", "y", "/">>

SnapshotUrlBase ==
  <<"h", "t", "t", "p", "s", ":", "/", "/", "g", "i", "t", "h", "u", "b",
    ".", "c", "o", "m", "/", "m", "i", "c", "r", "o", "s", "o", "f", "t",
    "/", "M", "i", "x", "e", "d", "R", "e", "a", "l", "i", "t", "y", "-",
    "G", "r", "a", "p", "h", "i", "c", "s", "T", "o", "o", "l", "s", "-",
    "U", "n", "i", "t", "y", "/", "a", "r", "c", "h", "i", "v", "e", "/",
    "r", "e", "f", "s", "/", "t", "a", "g", "s", "/", "v">>

TarGzExt ==
  <<".", "t", "a", "r", ".", "g", "z">>

ReleaseUrlBase ==
  <<"h", "t", "t", "p", "s", ":", "/", "/", "g", "i", "t", "h", "u", "b",
    ".", "c", "o", "m", "/", "M", "i", "x", "e", "d", "R", "e", "a", "l",
    "i", "t", "y", "T", "o", "o", "l", "k", "i", "t", "/", "M", "i", "x",
    "e", "d", "R", "e", "a", "l", "i", "t", "y", "T", "o", "o", "l", "k",
    "i", "t", "-", "U", "n", "i", "t", "y", "/", "r", "e", "l", "e", "a",
    "s", "e", "s", "/", "d", "o", "w", "n", "l", "o", "a", "d", "/", "v",
    "3", "/">>

TypeChars ==
  <<"a", "b", "f", "p">>

PinMicrosoft ==
  <<"1", ".", "1", "1", ".", "2">>

PinMetaNew ==
  <<"2", ".", "2", ".", "0">>

PinMetaMid ==
  <<"1", ".", "0", ".", "4">>

Unity6Threshold ==
  <<"6", "0", "0", "0", ".", "0", ".", "0">>

Unity2022Threshold ==
  <<"2", "0", "2", "2", ".", "3", ".", "0", "f", "1">>

\* version strings
V100 ==
  <<"1", ".", "0", ".", "0">>

V120 ==
  <<"1", ".", "2", ".", "0">>

V120pre1 ==
  <<"1", ".", "2", ".", "0", "-", "p", "r", "e", ".", "1">>

VBad ==
  <<"x">>

\* short component identifiers
Core ==
  <<"c", "o", "r", "e">>

Input ==
  <<"i", "n", "p", "u", "t">>

\* dependency names as package.json declares them
DepCore ==
  <<"o", "r", "g", ".", "m", "i", "x", "e", "d", "r", "e", "a", "l", "i",
    "t", "y", "t", "o", "o", "l", "k", "i", "t", ".", "c", "o", "r", "e">>

DepInput ==
  <<"o", "r", "g", ".", "m", "i", "x", "e", "d", "r", "e", "a", "l", "i",
    "t", "y", "t", "o", "o", "l", "k", "i", "t", ".", "i", "n", "p", "u",
    "t">>

DepUnity ==
  <<"c", "o", "m", ".", "u", "n", "i", "t", "y", ".", "i", "n", "p", "u",
    "t", "s", "y", "s", "t", "e", "m">>

\* release asset names
AssetCore100 ==
  <<"o", "r", "g", ".", "m", "i", "x", "e", "d", "r", "e", "a", "l", "i",
    "t", "y", "t", "o", "o", "l", "k", "i", "t", ".", "c", "o", "r", "e",
    "-", "1", ".", "0", ".", "0", ".", "t", "g", "z">>

AssetCore120 ==
  <<"o", "r", "g", ".", "m", "i", "x", "e", "d", "r", "e", "a", "l", "i",
    "t", "y", "t", "o", "o", "l", "k", "i", "t", ".", "c", "o", "r", "e",
    "-", "1", ".", "2", ".", "0", ".", "t", "g", "z">>

AssetCore120pre1 ==
  <<"o", "r", "g", ".", "m", "i", "x", "e", "d", "r", "e", "a", "l", "i",
    "t", "y", "t", "o", "o", "l", "k", "i", "t", ".", "c", "o", "r", "e",
    "-", "1", ".", "2", ".", "0", "-", "p", "r", "e", ".", "1", ".", "t",
    "g", "z">>

AssetInput100 ==
  <<"o", "r", "g", ".", "m", "i", "x", "e", "d", "r", "e", "a", "l", "i",
    "t", "y", "t", "o", "o", "l", "k", "i", "t", ".", "i", "n", "p", "u",
    "t", "-", "1", ".", "0", ".", "0", ".", "t", "g", "z">>

AssetInput120 ==
  <<"o", "r", "g", ".", "m", "i", "x", "e", "d", "r", "e", "a", "l", "i",
    "t", "y", "t", "o", "o", "l", "k", "i", "t", ".", "i", "n", "p", "u",
    "t", "-", "1", ".", "2", ".", "0", ".", "t", "g", "z">>

AssetDocs ==
  <<"d", "o", "c", "s", ".", "z", "i", "p">>

AssetSig ==
  <<"o", "r", "g", ".", "m", "i", "x", "e", "d", "r", "e", "a", "l", "i",
    "t", "y", "t", "o", "o", "l", "k", "i", "t", ".", "i", "n", "p", "u",
    "t", "-", "1", ".", "0", ".", "0", ".", "t", "g", "z", ".", "s", "h",
    "a">>

\* ProjectVersion.txt values
Unity6 ==
  <<"6", "0", "0", "0", ".", "0", ".", "1", "f", "1">>

Unity2022 ==
  <<"2", "0", "2", "2", ".", "3", ".", "5", "f", "1">>

Unity2021 ==
  <<"2", "0", "2", "1", ".", "3", ".", "1", "f", "1">>

Unity6Alpha ==
  <<"6", "0", "0", "0", ".", "0", ".", "1", "a", "1">>

Unity6Beta ==
  <<"6", "0", "0", "0", ".", "0", ".", "0", "b", "1">>

Unity2022a1 ==
  <<"2", "0", "2", "2", ".", "3", ".", "5", "a", "1">>

Unity2022b1 ==
  <<"2", "0", "2", "2", ".", "3", ".", "5", "b", "1">>

Unity2022f2 ==
  <<"2", "0", "2", "2", ".", "3", ".", "5", "f", "2">>

Unity2022p1 ==
  <<"2", "0", "2", "2", ".", "3", ".", "5", "p", "1">>

DepUgui ==
  <<"c", "o", "m", ".", "u", "n", "i", "t", "y", ".", "u", "g", "u", "i">>

\* version strings that isNewerVersion is compared on
Ver320 ==
  <<"3", ".", "2", ".", "0">>

Ver320pre5 ==
  <<"3", ".", "2", ".", "0", "-", "p", "r", "e", ".", "5">>

Ver320pre12 ==
  <<"3", ".", "2", ".", "0", "-", "p", "r", "e", ".", "1", "2">>

Ver321 ==
  <<"3", ".", "2", ".", "1">>

Ver32 ==
  <<"3", ".", "2">>

Ver3100 ==
  <<"3", ".", "1", "0", ".", "0">>

Ver0320 ==
  <<"0", "3", ".", "2", ".", "0">>

Ver320pre ==
  <<"3", ".", "2", ".", "0", "-", "p", "r", "e">>

Ver320rc1 ==
  <<"3", ".", "2", ".", "0", "-", "r", "c", ".", "1">>

Ver320pre5a ==
  <<"3", ".", "2", ".", "0", "-", "p", "r", "e", ".", "5", "a">>

Ver1a00 ==
  <<"1", "a", ".", "0", ".", "0">>

Verx10 ==
  <<"x", ".", "1", ".", "0">>

Ver1dd0 ==
  <<"1", ".", ".", "0">>

VerBig ==
  <<"2", "1", "4", "7", "4", "8", "3", "6", "4", "8", ".", "0", ".", "0">>

Ver320preBig ==
  <<"3", ".", "2", ".", "0", "-", "p", "r", "e", ".", "2", "1", "4", "7",
    "4", "8", "3", "6", "4", "8">>

Ver320pre1a ==
  <<"3", ".", "2", ".", "0", "-", "p", "r", "e", ".", "1", "a">>

\* Version strings of the catalog and of dependency declarations, every one
\* of which isNewerVersion accepts.
SortedStrings ==
  {Ver320, Ver320pre5, Ver320pre12, Ver320pre1a, Ver320pre5a, Ver320pre,
   Ver320rc1, Ver321, Ver32}

VersionStrings ==
  {Ver320, Ver320pre5, Ver320pre12, Ver321, Ver32, Ver3100, Ver0320,
   Ver320pre, Ver320rc1, Ver320pre5a, Ver1a00, Verx10, Ver1dd0, VerBig,
   Ver320preBig}

(***************************************************************************)
(* MRTKToolCore::extractComponentInfo                                      *)
(***************************************************************************)

\* [0-9]* at position i of s: the position after the longest run of digits.
RECURSIVE DigitsRunEnd(_, _)
DigitsRunEnd(s, i) ==
  IF i <= Len(s) /\ IsDigit(s[i]) THEN DigitsRunEnd(s, i + 1) ELSE i

\* [0-9]+ at position i of s: the position after the longest run of digits,
\* or 0 when there is no digit at i.
DigitsEnd(s, i) ==
  IF i >= 1 /\ i <= Len(s) /\ IsDigit(s[i]) THEN DigitsRunEnd(s, i + 1) ELSE 0

LiteralAt(s, i, lit) ==
  i >= 1 /\ i + Len(lit) - 1 <= Len(s) /\ SubSeq(s, i, i + Len(lit) - 1) = lit

\* \.[0-9]+ at position a, 0 when a is 0 or it does not match.
DotDigitsEnd(s, a) ==
  IF a # 0 /\ LiteralAt(s, a, <<".">>) THEN DigitsEnd(s, a + 1) ELSE 0

\* [0-9]+\.[0-9]+\.[0-9]+ at position i: the position after it, or 0.
CoreVersionEnd(s, i) == DotDigitsEnd(s, DotDigitsEnd(s, DigitsEnd(s, i)))

\* (?:-pre\.[0-9]+) at position c, 0 when c is 0 or it does not match.
PreTagEnd(s, c) ==
  IF c # 0 /\ LiteralAt(s, c, PreTag) THEN DigitsEnd(s, c + Len(PreTag)) ELSE 0

\* The optional group is tried first (greedy) and given up when \.tgz does
\* not follow it.
GroupEnd(s, c, p) ==
  IF p # 0 /\ LiteralAt(s, p, TgzExt) THEN p
  ELSE IF c # 0 /\ LiteralAt(s, c, TgzExt) THEN c
  ELSE 0

GroupEndAfterCore(s, c) == GroupEnd(s, c, PreTagEnd(s, c))

\* ([0-9]+\.[0-9]+\.[0-9]+(?:-pre\.[0-9]+)?)\.tgz at position i: the position
\* after the version group, or 0.
VersionGroupEnd(s, i) == GroupEndAfterCore(s, CoreVersionEnd(s, i))

\* (.+?)-(version)\.tgz with the group starting at position g: the position
\* of the first '-' at or after from that leaves the group non-empty and is
\* followed by a version and \.tgz (the lazy group is extended one character
\* at a time), or 0.
RECURSIVE LazyGroupDash(_, _, _)
TryDash(s, g, d) ==
  IF d = 0 THEN 0
  ELSE IF d > g /\ VersionGroupEnd(s, d + 1) # 0 THEN d
  ELSE LazyGroupDash(s, g, d + 1)

LazyGroupDash(s, g, from) == TryDash(s, g, FindFrom(s, "-", from))

\* std::regex_search: the leftmost position at or after from where the whole
\* expression matches, as <<position, d>> with d the '-' that ends the
\* identifier group, or <<0, 0>>.
RECURSIVE SearchFrom(_, _)
TryStart(s, from, d) ==
  IF d # 0 THEN <<from, d>> ELSE SearchFrom(s, from + 1)

SearchFrom(s, from) ==
  IF from + Len(RegexNamespace) > Len(s) THEN <<0, 0>>
  ELSE TryStart(s, from,
                IF LiteralAt(s, from, RegexNamespace)
                THEN LazyGroupDash(s, from + Len(RegexNamespace),
                                   from + Len(RegexNamespace))
                ELSE 0)

\* {match[1], match[2]} of the match m, or {"", ""}.
MatchGroups(s, m) ==
  IF m[1] = 0 THEN <<<<>>, <<>>>>
  ELSE <<SubSeq(s, m[1] + Len(RegexNamespace), m[2] - 1),
         SubSeq(s, m[2] + 1, VersionGroupEnd(s, m[2] + 1) - 1)>>

extractComponentInfo(fileName) == MatchGroups(fileName, SearchFrom(fileName, 1))

(***************************************************************************)
(* std::map<std::string, ...> : a function on a finite set of strings,     *)
(* iterated in ascending key order                                         *)
(***************************************************************************)

EmptyMap == [k \in {} |-> <<>>]

Put(m, k, v) == [x \in (DOMAIN m) \cup {k} |-> IF x = k THEN v ELSE m[x]]

\* The keys of a map in the order a range-for visits them.
RECURSIVE SortedSeq(_)
SortedSeq(S) ==
  IF S = {} THEN <<>>
  ELSE LET m == CHOOSE x \in S : \A y \in S : ~StrLess(y, x)
       IN <<m>> \o SortedSeq(S \ {m})

Range(f) == {f[i] : i \in DOMAIN f}

(***************************************************************************)
(* Bounds of the model                                                     *)
(***************************************************************************)

\* fetchAvailablePackages calls on one engine
MaxFetches == 1
\* Start Over clicks of one session of the GUI
MaxStartOvers == 1
\* Go back clicks of one session of the GUI
MaxGoBacks == 1
\* runs of the command line after the first one
MaxReruns == 1
\* index numbers on the line typed at the prompt of the command line
MaxTyped == 3
\* resolveDependencies calls in one run of fetch, resolve, download, install
MaxResolves == 1
\* resolveDependencies calls on an engine that is resolved repeatedly
MaxRepeats == 2
\* download-and-install runs on one engine
MaxInstalls == 1
\* dependency declarations over all package.json fragments of one world
MaxDeps == 2
\* release assets whose download fails
MaxFailures == 1

(***************************************************************************)
(* The environment: release feeds, package.json fragments, the project     *)
(***************************************************************************)

\* The assets of the releases feed, in feed order (releases flattened).
Feeds ==
  { <<AssetCore100, AssetInput100>>,
    <<AssetCore120, AssetDocs, AssetInput120, AssetCore100, AssetCore120>>,
    <<AssetCore120pre1, AssetSig, AssetCore100>> }

\* A dependency as a package.json declares it: <<name, version>>.
DepDecls ==
  { <<DepCore, V100>>, <<DepCore, V120>>, <<DepInput, V120>>,
    <<GraphicsTools, V100>>, <<GraphicsTools, V120>>,
    <<DepUnity, V100>>, <<DepCore, VBad>>, <<OwnNamespace, V100>>,
    <<OpenXrMicrosoft, V100>> }

\* The dependencies objects a package.json can hold: at most MaxDeps entries,
\* one per name.
Fragments ==
  {f : f \in {g \in SUBSET DepDecls :
                 /\ Cardinality(g) <= MaxDeps
                 /\ \A d, e \in g : d[1] = e[1] => d = e}}

\* Every asset name of the feeds.
AssetNames == UNION {{feed[i] : i \in 1..Len(feed)} : feed \in Feeds}

\* extractComponentInfo of every asset name, computed once.
ParsedAssets == {<<a, extractComponentInfo(a)>> : a \in AssetNames}

ParsedAsset(a) == (CHOOSE p \in ParsedAssets : p[1] = a)[2]

\* asset.value("browser_download_url", "")
BrowserDownloadUrl(assetName) == ReleaseUrlBase \o assetName

\* fs::path(url).filename()
UrlFilename(url) == After(url, FindLastOf(url, "/"))

\* What getUnityVersion can return: "" and m_EditorVersion strings on both
\* sides of the two thresholds and equal to the second one.
HostVersions ==
  {<<>>, Unity6, Unity2022, Unity2021, Unity6Alpha, Unity6Beta,
   Unity2022Threshold}

\* The strings UnityVersion is constructed from and compared on.
HostTags ==
  HostVersions \cup
    {Unity6Threshold, Unity2022a1, Unity2022b1, Unity2022f2, Unity2022p1}

\* The dependencies object of the project's manifest.json before the tool runs.
InitialManifest == Put(Put(EmptyMap, DepUgui, V100), OpenXrMeta, V100)

VARIABLES
  \* MRTKToolCore members
  githubJsonParsed,        \* the parsed feed: its asset names in order
  allPackages,             \* std::vector<SelectablePackage>
  mrtkComponentVersions,   \* identifier -> versions in push_back order
  requiredMrtkPackages,    \* TransitiveRequirement
  resolvedUserSelections,  \* UserSelection
  resolvedDependencies,    \* the dependency-only view
  requiredOpenXrPackages,  \* RuntimeSelection
  \* one resolveDependencies call in progress
  selectedIndices,         \* its argument
  processedComponents,     \* VisitedKey set
  pendingSelections,       \* the rest of the loop over resolvedUserSelections
  stack,                   \* the rest of each active loop over dependencies
  pc,                      \* where the caller is
  \* the environment
  tgz,                     \* asset name -> what its download yields, once known
  cwdFiles,                \* file names in the working directory
  projectFiles,            \* file names in <project>/Packages/MixedReality
  manifest,                \* <project>/Packages/manifest.json
  unityVersion,            \* ProjectVersion.txt's m_EditorVersion, once read
  budget,                  \* calls and environment choices still allowed
  \* records of what happened
  requested,               \* <<component, version>> of every walk invocation
  walkedDeps,              \* declared names the dependency loop recursed into
  expanded,                \* keys recorded by the current resolve, in order
  lastResolve,             \* the previous completed resolve: argument, results
  downloadLog,             \* file names the download phase fetched, in order
  \* a comparison of two version strings
  v_old, v_new, verdict,
  \* comparisons of three host version strings
  hostA, hostB, hostC, hostOrder,
  \* the GUI (src/gui_main.cpp)
  gui,                     \* "none", "running", "raced" or "crashed"
  book,                    \* the pages of the wxSimplebook, in order
  shown,                   \* the 0-based index of the displayed page
  progressPanel,           \* MyFrame::progressPanel: the page it points to
  discoverEnabled,         \* whether the Discover Features button is enabled
  workers,                 \* the detached worker threads still running
  events,                  \* events queued for the frame, in order
  \* the command line (src/cli_main.cpp)
  inputLine,               \* the line of index numbers the user typed
  \* isNewerVersion on three versions
  v_mid,                   \* the third version, ranked between the two others
  ranking                  \* what isNewerVersion returned on their pairs

engineVars ==
  <<githubJsonParsed, allPackages, mrtkComponentVersions, requiredMrtkPackages,
    resolvedUserSelections, resolvedDependencies, requiredOpenXrPackages>>

walkVars == <<selectedIndices, processedComponents, pendingSelections, stack>>

envVars == <<tgz, cwdFiles, projectFiles, manifest, unityVersion>>

logVars == <<requested, walkedDeps, expanded, lastResolve, downloadLog>>

sortVars == <<v_mid, ranking>>

guiVars ==
  <<gui, book, shown, progressPanel, discoverEnabled, workers, events>>

cmpVars ==
  <<v_old, v_new, verdict, hostA, hostB, hostC, hostOrder, guiVars, inputLine,
    sortVars>>

vars == <<engineVars, walkVars, pc, envVars, budget, logVars, cmpVars>>

NoResolve == [done |-> FALSE]

\* MRTKToolCore::MRTKToolCore() = default, in a fresh working directory.
EngineInit ==
  /\ githubJsonParsed = <<>>
  /\ allPackages = <<>>
  /\ mrtkComponentVersions = EmptyMap
  /\ requiredMrtkPackages = EmptyMap
  /\ resolvedUserSelections = EmptyMap
  /\ resolvedDependencies = EmptyMap
  /\ requiredOpenXrPackages = {}
  /\ selectedIndices = {}
  /\ processedComponents = {}
  /\ pendingSelections = <<>>
  /\ stack = <<>>
  /\ tgz = EmptyMap
  /\ cwdFiles = {}
  /\ projectFiles = {}
  /\ manifest = [state |-> "unread"]
  /\ unityVersion = [state |-> "unread"]
  /\ requested = {}
  /\ walkedDeps = {}
  /\ expanded = <<>>
  /\ lastResolve = NoResolve
  /\ downloadLog = <<>>

NoVerdict == [exc |-> "pending", val |-> FALSE]

NoOrder == [done |-> FALSE]

\* ProgressPanel* progressPanel; which the constructor of MyFrame leaves
\* unset.
NoPanel == [set |-> FALSE]

\* No window exists: the engine runs under the command line.
NoGui ==
  /\ gui = "none"
  /\ book = <<>>
  /\ shown = 0
  /\ progressPanel = NoPanel
  /\ discoverEnabled = FALSE
  /\ workers = <<>>
  /\ events = <<>>

NoRanking == [done |-> FALSE]

\* No three versions are being ranked.
NoSort ==
  /\ v_mid = <<>>
  /\ ranking = NoRanking

\* No UnityVersion comparison is under way and no window exists.
NoHosts ==
  /\ hostA = <<>>
  /\ hostB = <<>>
  /\ hostC = <<>>
  /\ hostOrder = NoOrder
  /\ NoGui
  /\ inputLine = <<>>
  /\ NoSort

\* A fresh engine whose caller fetches, resolves, downloads and installs.
Init ==
  /\ EngineInit
  /\ pc = "idle"
  /\ budget = [fetch |-> MaxFetches, resolve |-> MaxResolves,
               install |-> MaxInstalls, deps |-> MaxDeps, fail |-> MaxFailures]
  /\ v_old = <<>>
  /\ v_new = <<>>
  /\ verdict = NoVerdict
  /\ NoHosts

\* A fresh engine whose caller fetches and then resolves again and again.
RepeatInit ==
  /\ EngineInit
  /\ pc = "idle"
  /\ budget = [fetch |-> MaxFetches, resolve |-> MaxRepeats,
               install |-> 0, deps |-> MaxDeps, fail |-> MaxFailures]
  /\ v_old = <<>>
  /\ v_new = <<>>
  /\ verdict = NoVerdict
  /\ NoHosts

\* A fresh engine in the GUI, whose user starts over after the installation
\* and discovers again.
StartOverInit ==
  /\ EngineInit
  /\ pc = "idle"
  /\ budget = [fetch |-> MaxFetches + MaxStartOvers, resolve |-> MaxResolves,
               install |-> MaxInstalls, deps |-> MaxDeps, fail |-> MaxFailures]
  /\ v_old = <<>>
  /\ v_new = <<>>
  /\ verdict = NoVerdict
  /\ NoHosts

\* The page MyFrame's constructor adds.
ProjectPage ==
  [kind |-> "project", user |-> EmptyMap, deps |-> EmptyMap, log |-> 0]

\* A fresh engine inside the frame of the GUI, as MyFrame's constructor and
\* ProjectSelectPanel's constructor leave them. Every package.json has an
\* empty dependencies object and every download succeeds.
GuiInit ==
  /\ EngineInit
  /\ pc = "idle"
  /\ budget = [fetch |-> MaxFetches,
               resolve |-> MaxResolves + MaxGoBacks,
               install |-> MaxInstalls, deps |-> 0, fail |-> 0]
  /\ v_old = <<>>
  /\ v_new = <<>>
  /\ verdict = NoVerdict
  /\ hostA = <<>>
  /\ hostB = <<>>
  /\ hostC = <<>>
  /\ hostOrder = NoOrder
  /\ gui = "running"
  /\ book = <<ProjectPage>>
  /\ shown = 0
  /\ progressPanel = NoPanel
  /\ discoverEnabled = FALSE
  /\ workers = <<>>
  /\ events = <<>>
  /\ inputLine = <<>>
  /\ NoSort

\* The command line run again and again on the same project, from the same
\* working directory and against the same feed; every download succeeds and
\* the artifacts declare no dependencies.
RerunInit ==
  /\ EngineInit
  /\ pc = "idle"
  /\ budget = [fetch |-> MaxFetches, resolve |-> MaxResolves + MaxReruns,
               install |-> MaxInstalls + MaxReruns, deps |-> 0, fail |-> 0]
  /\ v_old = <<>>
  /\ v_new = <<>>
  /\ verdict = NoVerdict
  /\ NoHosts

\* The index numbers a user may type, each followed by a space: two that are
\* in range for every list, one beyond every list, a negative one, and one
\* beyond the range of int.
TypedNumbers ==
  { <<"0", " ">>, <<"2", " ">>, <<"9", " ">>, <<"-", "1", " ">>,
    <<"9", "9", "9", "9", "9", "9", "9", "9", "9", "9", "9", " ">> }

\* The lines of at most MaxTyped numbers.
RECURSIVE TypedLines(_)
TypedLines(n) ==
  IF n = 0 THEN {<<>>}
  ELSE TypedLines(n - 1)
         \cup {l \o w : l \in TypedLines(n - 1), w \in TypedNumbers}

\* The command line after the project path was accepted, with the line the
\* user will type at the prompt.
InputInit ==
  /\ EngineInit
  /\ pc = "idle"
  /\ budget = [fetch |-> MaxFetches, resolve |-> 0, install |-> 0,
               deps |-> 0, fail |-> 0]
  /\ v_old = <<>>
  /\ v_new = <<>>
  /\ verdict = NoVerdict
  /\ hostA = <<>>
  /\ hostB = <<>>
  /\ hostC = <<>>
  /\ hostOrder = NoOrder
  /\ NoGui
  /\ inputLine \in TypedLines(MaxTyped)
  /\ NoSort

\* A call of isNewerVersion on two strings, nothing else running.
CompareInit ==
  /\ EngineInit
  /\ pc = "compare"
  /\ budget = [fetch |-> 0, resolve |-> 0, install |-> 0, deps |-> 0,
               fail |-> 0]
  /\ v_old \in VersionStrings
  /\ v_new \in VersionStrings
  /\ verdict = NoVerdict
  /\ NoHosts

\* isNewerVersion called on the pairs of three versions, as std::sort and
\* the walk call it, nothing else running.
SortInit ==
  /\ EngineInit
  /\ pc = "sort"
  /\ budget = [fetch |-> 0, resolve |-> 0, install |-> 0, deps |-> 0,
               fail |-> 0]
  /\ v_old \in SortedStrings
  /\ v_mid \in SortedStrings
  /\ v_new \in SortedStrings
  /\ verdict = NoVerdict
  /\ hostA = <<>>
  /\ hostB = <<>>
  /\ hostC = <<>>
  /\ hostOrder = NoOrder
  /\ NoGui
  /\ inputLine = <<>>
  /\ ranking = NoRanking

\* UnityVersion objects built from three strings and compared with operator>,
\* nothing else running.
HostInit ==
  /\ EngineInit
  /\ pc = "hosts"
  /\ budget = [fetch |-> 0, resolve |-> 0, install |-> 0, deps |-> 0,
               fail |-> 0]
  /\ v_old = <<>>
  /\ v_new = <<>>
  /\ verdict = NoVerdict
  /\ hostA \in HostTags
  /\ hostB \in HostTags
  /\ hostC \in HostTags
  /\ hostOrder = NoOrder
  /\ NoGui
  /\ inputLine = <<>>
  /\ NoSort

(***************************************************************************)
(* MRTKToolCore::fetchAvailablePackages                                    *)
(***************************************************************************)

\* mrtkComponentVersions[component].push_back(version) for one asset.
AddAsset(versions, name, info) ==
  IF EndsWith(name, TgzExt) /\ info[1] # <<>>
  THEN Put(versions, info[1],
           (IF info[1] \in DOMAIN versions THEN versions[info[1]] ELSE <<>>)
             \o <<info[2]>>)
  ELSE versions

\* The loop over releases and assets.
RECURSIVE AddAssets(_, _)
AddAssets(versions, assets) ==
  IF assets = <<>> THEN versions
  ELSE AddAssets(AddAsset(versions, Head(assets), ParsedAsset(Head(assets))),
                 Tail(assets))

MrtkEntries(names) ==
  [i \in 1..Len(names) |-> [identifier |-> names[i], type |-> "MRTK"]]

OpenXrEntries ==
  << [identifier |-> OpenXrMicrosoft, type |-> "OpenXR"],
     [identifier |-> OpenXrMeta, type |-> "OpenXR"] >>

\* The list fetch appends to allPackages.
NewPackages(versions) == MrtkEntries(SortedSeq(DOMAIN versions)) \o OpenXrEntries

\* What the caller does after a fetch that returned false. main returns 1, and
\* a fresh engine has nothing to offer. OnDiscover drops the return value and
\* OnDiscoveryComplete opens the selection page whenever the list the engine
\* holds is not empty, which it is after Start Over.
AfterFailedFetch(at, packages) == IF packages = <<>> THEN at ELSE "ready"

\* httpGet returned nothing, or the response did not parse: false is returned
\* and no member is touched.
FetchFails ==
  /\ pc \in {"idle", "installed"}
  /\ budget.fetch > 0
  /\ budget' = [budget EXCEPT !.fetch = @ - 1]
  /\ pc' = AfterFailedFetch(pc, allPackages)
  /\ UNCHANGED <<engineVars, walkVars, envVars, logVars, cmpVars>>

FetchOk ==
  /\ pc \in {"idle", "installed"}
  /\ budget.fetch > 0
  /\ \E feed \in Feeds :
       /\ githubJsonParsed' = feed
       /\ mrtkComponentVersions' = AddAssets(mrtkComponentVersions, feed)
       /\ allPackages' = allPackages \o NewPackages(mrtkComponentVersions')
  /\ pc' = "ready"
  /\ budget' = [budget EXCEPT !.fetch = @ - 1]
  /\ UNCHANGED <<requiredMrtkPackages, resolvedUserSelections,
                 resolvedDependencies, requiredOpenXrPackages,
                 walkVars, envVars, logVars, cmpVars>>

(***************************************************************************)
(* MRTKToolCore::resolveDependencies, lines 117-137                        *)
(***************************************************************************)

\* std::sort(versions.begin(), versions.end(), isNewerVersion): ascending,
\* comp(a, b) = isNewerVersion(a, b). The versions of a feed that rank equal
\* are the same string, so every ordering std::sort may produce is this one.
RECURSIVE InsertSorted(_, _)
InsertSorted(sorted, x) ==
  IF sorted = <<>> THEN <<x>>
  ELSE IF isNewerVersion(x, Head(sorted)).val THEN <<x>> \o sorted
  ELSE <<Head(sorted)>> \o InsertSorted(Tail(sorted), x)

RECURSIVE SortVersions(_)
SortVersions(versions) ==
  IF versions = <<>> THEN <<>>
  ELSE InsertSorted(SortVersions(SubSeq(versions, 1, Len(versions) - 1)),
                    versions[Len(versions)])

\* versions.front()
FrontVersion(versions) == versions[1]

\* versions.back()
LatestVersion(versions) == versions[Len(versions)]

\* A visited set that outlives the call.
KeptProcessed(old) == old

\* std::set<std::string> processedComponents; a local of each call
FreshProcessed(old) == {}

\* A member that keeps its entries from call to call.
KeptEntries(old) == old

\* requiredMrtkPackages.clear(); resolvedUserSelections.clear();
\* resolvedDependencies.clear();
ClearedEntries(old) == EmptyMap

\* map[key] = value for every key of new, on top of base
Overwrite(base, new) ==
  [k \in (DOMAIN base) \cup (DOMAIN new) |->
     IF k \in DOMAIN new THEN new[k] ELSE base[k]]

\* requiredOpenXrPackages.insert(...) on the member, which no call clears
RuntimeSelectionAfter(old, chosen) == old \cup chosen

\* allPackages.at(idx) for the 0-based indices of the argument
SelectedPackages(sel) == {allPackages[i + 1] : i \in sel}

SelectedOfType(sel, t) ==
  {p.identifier : p \in {q \in SelectedPackages(sel) : q.type = t}}

ResolveBegin ==
  /\ pc \in {"ready", "resolved"}
  /\ budget.resolve > 0
  /\ \E sel \in (SUBSET (0..(Len(allPackages) - 1))) \ {{}} :
       LET mrtk == SelectedOfType(sel, "MRTK")
           sorted == [id \in DOMAIN mrtkComponentVersions |->
                        IF id \in mrtk
                        THEN SortVersions(mrtkComponentVersions[id])
                        ELSE mrtkComponentVersions[id]]
           user == Overwrite(ClearedEntries(resolvedUserSelections),
                             [id \in mrtk |-> LatestVersion(sorted[id])])
           names == SortedSeq(DOMAIN user)
       IN /\ selectedIndices' = sel
          /\ mrtkComponentVersions' = sorted
          /\ resolvedUserSelections' = user
          /\ requiredOpenXrPackages' =
               RuntimeSelectionAfter(requiredOpenXrPackages,
                                     SelectedOfType(sel, "OpenXR"))
          /\ pendingSelections' =
               [i \in 1..Len(names) |-> <<names[i], user[names[i]]>>]
  /\ requiredMrtkPackages' = ClearedEntries(requiredMrtkPackages)
  /\ resolvedDependencies' = ClearedEntries(resolvedDependencies)
  /\ processedComponents' = FreshProcessed(processedComponents)
  /\ stack' = <<>>
  /\ pc' = "walk"
  /\ budget' = [budget EXCEPT !.resolve = @ - 1]
  /\ requested' = {}
  /\ walkedDeps' = {}
  /\ expanded' = <<>>
  /\ UNCHANGED <<githubJsonParsed, allPackages, envVars, lastResolve,
                 downloadLog, cmpVars>>

(***************************************************************************)
(* MRTKToolCore::resolveDependenciesRecursive                              *)
(*                                                                         *)
(* The recursion is kept as the stack of the dependency loops still        *)
(* running (each the rest of its range-for) above the loop over            *)
(* resolvedUserSelections; one step is one loop iteration.                 *)
(***************************************************************************)

\* The loops that ended return to their callers.
RECURSIVE PopFinished(_)
PopFinished(st) ==
  IF st # <<>> /\ st[Len(st)] = <<>>
  THEN PopFinished(SubSeq(st, 1, Len(st) - 1))
  ELSE st

HasItem == stack # <<>> \/ pendingSelections # <<>>

FromDeps == stack # <<>>

\* The <<name, version>> of the iteration to run.
Item == IF FromDeps THEN Head(stack[Len(stack)]) ELSE Head(pendingSelections)

RestStack ==
  IF FromDeps THEN PopFinished([stack EXCEPT ![Len(stack)] = Tail(@)])
  ELSE stack

RestPending ==
  IF FromDeps THEN pendingSelections ELSE Tail(pendingSelections)

\* No dependency counts as externally managed.
NeverExternallyManaged(depName) == FALSE

\* depName.starts_with("com.unity.")
IsExternallyManaged(depName) == StartsWith(depName, UnityNamespace)

OwnPrefixed == FromDeps /\ StartsWith(Item[1], OwnNamespace)

\* depName.substr(24) throws std::out_of_range when depName has 23 characters.
SubstrThrows == OwnPrefixed /\ Len(Item[1]) < 24

\* The component the iteration calls resolveDependenciesRecursive with.
Component ==
  IF OwnPrefixed THEN SubSeq(Item[1], 25, Len(Item[1])) ELSE Item[1]

Version == Item[2]

ComponentKey(component, version) == component \o <<"-">> \o version

\* Neither early return is taken.
NeverSkips(component, version, processed, required) == FALSE

\* Only the exact repeat returns early.
SkipsProcessedOnly(component, version, processed, required) ==
  ComponentKey(component, version) \in processed

\* The test of line 425 turned round: the exact repeat and a strictly newer
\* requirement return early.
SkipsNewerOnly(component, version, processed, required) ==
  \/ ComponentKey(component, version) \in processed
  \/ /\ component \in DOMAIN required
     /\ isNewerVersion(required[component], version).val

\* The two early returns, lines 423-427.
SkipsNode(component, version, processed, required) ==
  \/ ComponentKey(component, version) \in processed
  \/ /\ component \in DOMAIN required
     /\ ~isNewerVersion(required[component], version).val

\* isNewerVersion throws out of line 425.
CompareThrows(component, version, processed, required) ==
  /\ ComponentKey(component, version) \notin processed
  /\ component \in DOMAIN required
  /\ isNewerVersion(required[component], version).exc # "none"

\* The first asset of the feed whose name parses to the component and version,
\* or <<>>.
RECURSIVE FirstAssetFor(_, _, _)
FirstAssetFor(assets, component_name, version) ==
  IF assets = <<>> THEN <<>>
  ELSE IF ParsedAsset(Head(assets)) = <<component_name, version>>
       THEN Head(assets)
       ELSE FirstAssetFor(Tail(assets), component_name, version)

UrlOfAsset(a) == IF a = <<>> THEN <<>> ELSE BrowserDownloadUrl(a)

findDownloadUrlForComponent(component_name, version) ==
  UrlOfAsset(FirstAssetFor(githubJsonParsed, component_name, version))

\* The dependencies map of a fragment in iteration order.
DepsInOrder(frag) ==
  LET names == SortedSeq({d[1] : d \in frag})
  IN [i \in 1..Len(names) |-> CHOOSE d \in frag : d[1] = names[i]]

Calls == pc = "walk" /\ HasItem /\ ~(FromDeps /\ IsExternallyManaged(Item[1]))

Enters ==
  /\ Calls
  /\ ~SubstrThrows
  /\ ~CompareThrows(Component, Version, processedComponents, requiredMrtkPackages)

Records ==
  /\ Enters
  /\ ~SkipsNode(Component, Version, processedComponents, requiredMrtkPackages)

LogCall ==
  /\ requested' = requested \cup {<<Component, Version>>}
  /\ walkedDeps' = IF FromDeps THEN walkedDeps \cup {Item[1]} ELSE walkedDeps

Record ==
  /\ requiredMrtkPackages' = Put(requiredMrtkPackages, Component, Version)
  /\ processedComponents' =
       processedComponents \cup {ComponentKey(Component, Version)}
  /\ expanded' = Append(expanded, <<Component, Version>>)

\* if (depName.starts_with("com.unity.")) continue;
WalkSkipExternal ==
  /\ pc = "walk" /\ FromDeps
  /\ IsExternallyManaged(Item[1])
  /\ stack' = RestStack
  /\ UNCHANGED <<engineVars, selectedIndices, processedComponents,
                 pendingSelections, pc, envVars, budget, logVars, cmpVars>>

\* An exception leaves the walk and resolveDependencies: substr(24) on the bare
\* namespace, or std::stoi inside isNewerVersion.
WalkThrows ==
  /\ Calls
  /\ \/ SubstrThrows
     \/ CompareThrows(Component, Version, processedComponents,
                      requiredMrtkPackages)
  /\ pc' = "resolve_threw"
  /\ IF SubstrThrows THEN UNCHANGED <<requested, walkedDeps>> ELSE LogCall
  /\ UNCHANGED <<engineVars, walkVars, envVars, budget, expanded,
                 lastResolve, downloadLog, cmpVars>>

\* The node was processed before or is dominated by a not-older requirement.
WalkReturns ==
  /\ Enters
  /\ SkipsNode(Component, Version, processedComponents, requiredMrtkPackages)
  /\ stack' = RestStack
  /\ pendingSelections' = RestPending
  /\ LogCall
  /\ UNCHANGED <<engineVars, selectedIndices, processedComponents, pc,
                 envVars, budget, expanded, lastResolve, downloadLog, cmpVars>>

\* The node is recorded and has no asset in the feed.
WalkLeaf ==
  /\ pc = "walk" /\ HasItem
  /\ findDownloadUrlForComponent(Component, Version) = <<>>
  /\ Records
  /\ Record
  /\ stack' = RestStack
  /\ pendingSelections' = RestPending
  /\ LogCall
  /\ UNCHANGED <<githubJsonParsed, allPackages, mrtkComponentVersions,
                 resolvedUserSelections, resolvedDependencies,
                 requiredOpenXrPackages, selectedIndices, pc, envVars, budget,
                 lastResolve, downloadLog, cmpVars>>

\* What the download of an asset yields: known from an earlier download, or
\* fixed now.
Outcomes(asset) ==
  IF asset \in DOMAIN tgz THEN {tgz[asset]}
  ELSE {[ok |-> TRUE, deps |-> f] :
          f \in {g \in Fragments : Cardinality(g) <= budget.deps}}
       \cup (IF budget.fail > 0 THEN {[ok |-> FALSE, deps |-> {}]} ELSE {})

Reveal(asset, o) ==
  /\ tgz' = Put(tgz, asset, o)
  /\ budget' = IF asset \in DOMAIN tgz THEN budget
               ELSE [budget EXCEPT !.deps = @ - Cardinality(o.deps),
                                   !.fail = IF o.ok THEN @ ELSE @ - 1]

\* The node is recorded and its asset is downloaded to the temporary file; a
\* failed download returns with the file left as opened, a successful one is
\* inspected, removed and its dependencies are looped over.
WalkExpand ==
  /\ Records
  /\ LET url == findDownloadUrlForComponent(Component, Version)
         asset == UrlFilename(url)
     IN /\ url # <<>>
        /\ \E o \in Outcomes(asset) :
             /\ Reveal(asset, o)
             /\ cwdFiles' = IF o.ok THEN cwdFiles \ {TempFile}
                            ELSE cwdFiles \cup {TempFile}
             /\ stack' = PopFinished(Append(RestStack, DepsInOrder(o.deps)))
  /\ Record
  /\ pendingSelections' = RestPending
  /\ LogCall
  /\ UNCHANGED <<githubJsonParsed, allPackages, mrtkComponentVersions,
                 resolvedUserSelections, resolvedDependencies,
                 requiredOpenXrPackages, selectedIndices, pc, projectFiles,
                 manifest, unityVersion, lastResolve, downloadLog, cmpVars>>

\* resolveDependencies, lines 145-150
DependencyView(required, user) ==
  [name \in (DOMAIN required) \ (DOMAIN user) |-> required[name]]

ResolveFinish ==
  /\ pc = "walk" /\ ~HasItem
  /\ resolvedDependencies' =
       DependencyView(requiredMrtkPackages, resolvedUserSelections)
  /\ pc' = "resolved"
  /\ lastResolve' =
       [done |-> TRUE, sel |-> selectedIndices, feed |-> githubJsonParsed,
        packages |-> allPackages,
        required |-> requiredMrtkPackages, user |-> resolvedUserSelections,
        deps |-> resolvedDependencies',
        prev |-> IF lastResolve.done
                 THEN [lastResolve EXCEPT !.prev = NoResolve]
                 ELSE NoResolve]
  /\ UNCHANGED <<githubJsonParsed, allPackages, mrtkComponentVersions,
                 requiredMrtkPackages, resolvedUserSelections,
                 requiredOpenXrPackages, walkVars, envVars, budget,
                 requested, walkedDeps, expanded, downloadLog, cmpVars>>

(***************************************************************************)
(* UnityVersion                                                            *)
(***************************************************************************)

ScanValue(s, neg, u, d) ==
  IF d = <<>> THEN [ok |-> FALSE, val |-> 0, rest |-> s]
  ELSE [ok |-> TRUE,
        val |-> IF neg THEN 0 - DigitsValue(d, 0) ELSE DigitsValue(d, 0),
        rest |-> SubSeq(u, Len(d) + 1, Len(u))]

ScanUnsigned(s, neg, u) == ScanValue(s, neg, u, DigitPrefix(u))

ScanSigned(s, t) ==
  ScanUnsigned(s, t # <<>> /\ Head(t) = "-",
               IF t # <<>> /\ Head(t) \in {"+", "-"} THEN Tail(t) ELSE t)

\* One %d of sscanf: [ok, val, rest].
ScanInt(s) == ScanSigned(s, SkipSpaces(s))

\* The literal '.' of the format and the %d after it, when the conversion
\* before them succeeded.
ScanDotInt(a) ==
  IF a.ok /\ a.rest # <<>> /\ Head(a.rest) = "."
  THEN ScanInt(Tail(a.rest))
  ELSE [ok |-> FALSE, val |-> 0, rest |-> <<>>]

\* s.find_first_of(chars) at or after position i
RECURSIVE FindFirstOfFrom(_, _, _)
FindFirstOfFrom(s, chars, i) ==
  IF i > Len(s) THEN Npos
  ELSE IF IndexIn(s[i], chars) > 0 THEN i
  ELSE FindFirstOfFrom(s, chars, i + 1)

\* s.find_first_of("abfp")
FindFirstOf(s, chars) == FindFirstOfFrom(s, chars, 1)

\* The members after the constructor body; a member no conversion assigned
\* keeps its default (0, 'f').
UnityVersionFields(version_str, a, b, c, type_pos, build) ==
  [exc |-> build.exc,
   major |-> IF a.ok THEN a.val ELSE 0,
   minor |-> IF b.ok THEN b.val ELSE 0,
   patch |-> IF c.ok THEN c.val ELSE 0,
   type |-> IF type_pos = Npos THEN "f" ELSE version_str[type_pos],
   build |-> build.val]

UnityVersionTyped(version_str, a, b, c, type_pos) ==
  UnityVersionFields(version_str, a, b, c, type_pos,
                     IF type_pos = Npos THEN [exc |-> "none", val |-> 0]
                     ELSE Stoi(After(version_str, type_pos)))

UnityVersionScanned(version_str, a, b) ==
  UnityVersionTyped(version_str, a, b, ScanDotInt(b),
                    FindFirstOf(version_str, TypeChars))

UnityVersionParsed(version_str, a) ==
  UnityVersionScanned(version_str, a, ScanDotInt(a))

\* UnityVersion::UnityVersion(version_str); exc is the exception of std::stoi.
UnityVersion(version_str) ==
  IF version_str = <<>>
  THEN [exc |-> "none", major |-> 0, minor |-> 0, patch |-> 0, type |-> "f",
        build |-> 0]
  ELSE UnityVersionParsed(version_str, ScanInt(version_str))

\* A comparison that is not strict: true on equal tuples.
UnityGreaterOrEqual(x, other) ==
  IF x.major # other.major THEN x.major > other.major
  ELSE IF x.minor # other.minor THEN x.minor > other.minor
  ELSE IF x.patch # other.patch THEN x.patch > other.patch
  ELSE IF x.type # other.type THEN CharCode(x.type) > CharCode(other.type)
  ELSE x.build >= other.build

\* A comparison that skips the release type.
UnityGreaterIgnoringType(x, other) ==
  IF x.major # other.major THEN x.major > other.major
  ELSE IF x.minor # other.minor THEN x.minor > other.minor
  ELSE IF x.patch # other.patch THEN x.patch > other.patch
  ELSE x.build > other.build

\* bool UnityVersion::operator>(const UnityVersion& other) const
UnityGreater(x, other) ==
  IF x.major # other.major THEN x.major > other.major
  ELSE IF x.minor # other.minor THEN x.minor > other.minor
  ELSE IF x.patch # other.patch THEN x.patch > other.patch
  ELSE IF x.type # other.type THEN CharCode(x.type) > CharCode(other.type)
  ELSE x.build > other.build

(***************************************************************************)
(* MRTKToolCore::downloadAndRepackage                                      *)
(***************************************************************************)

\* No entry is the special dependency.
NeverSpecial(name) == FALSE

\* name == "com.microsoft.mrtk.graphicstools.unity"
IsSpecialDependency(name) == name = GraphicsTools

SnapshotUrl(version) == SnapshotUrlBase \o version \o TarGzExt

RepackagedName(version) == GraphicsTools \o <<"-">> \o version \o TgzExt

\* What the download phase does for one entry of requiredMrtkPackages, given
\* how the snapshot download of the special dependency ends: the files it
\* leaves in the working directory, the file name it fetched (<<>> for none),
\* and whether an exception leaves the phase.
\*   "fails":   downloadFile returns "" with the output file already opened
\*   "ok":      the snapshot holds the expected subdirectory
\*   "nosub":   it does not; createTgzArchive has opened the archive when
\*              recursive_directory_iterator throws on the missing ./package
DownloadEntry(name, version, snapshot) ==
  IF IsSpecialDependency(name)
  THEN LET f == UrlFilename(SnapshotUrl(version))
       IN CASE snapshot = "fails" ->
                 [files |-> {f}, fetched |-> f, throws |-> FALSE]
            [] snapshot = "ok" ->
                 [files |-> {RepackagedName(version)}, fetched |-> f,
                  throws |-> FALSE]
            [] OTHER ->
                 [files |-> {f, RepackagedName(version)}, fetched |-> f,
                  throws |-> TRUE]
  ELSE LET url == findDownloadUrlForComponent(name, version)
       IN IF url = <<>>
          THEN [files |-> {}, fetched |-> <<>>, throws |-> FALSE]
          ELSE [files |-> {UrlFilename(url)}, fetched |-> UrlFilename(url),
                throws |-> FALSE]

\* The loop over requiredMrtkPackages, which an exception ends.
RECURSIVE DownloadAll(_, _, _)
DownloadAll(names, snapshot, acc) ==
  IF names = <<>> \/ acc.throws THEN acc
  ELSE LET e == DownloadEntry(Head(names), requiredMrtkPackages[Head(names)],
                              snapshot)
       IN DownloadAll(Tail(names), snapshot,
                      [files |-> acc.files \cup e.files,
                       log |-> IF e.fetched = <<>> THEN acc.log
                               ELSE Append(acc.log, e.fetched),
                       throws |-> e.throws])

SnapshotOutcomes ==
  IF GraphicsTools \in DOMAIN requiredMrtkPackages
  THEN {"fails", "ok", "nosub"} ELSE {"none"}

DownloadAndRepackage ==
  /\ pc = "resolved"
  /\ budget.install > 0
  /\ \E snapshot \in SnapshotOutcomes :
       LET r == DownloadAll(SortedSeq(DOMAIN requiredMrtkPackages), snapshot,
                            [files |-> {}, log |-> <<>>, throws |-> FALSE])
       IN /\ cwdFiles' = cwdFiles \cup r.files
          /\ downloadLog' = r.log
          /\ pc' = IF r.throws THEN "download_threw" ELSE "downloaded"
  /\ budget' = [budget EXCEPT !.install = @ - 1]
  /\ UNCHANGED <<engineVars, walkVars, tgz, projectFiles, manifest,
                 unityVersion, requested, walkedDeps, expanded, lastResolve,
                 cmpVars>>

(***************************************************************************)
(* MRTKToolCore::installPackagesToProject                                  *)
(***************************************************************************)

\* file.path().extension() == ".tgz"
IsTgz(filename) == EndsWith(filename, TgzExt)

\* filename.substr(0, filename.find_last_of('-'))
ManifestKey(filename) == Before(filename, FindLastOf(filename, "-"))

\* The loop over the installed directory, lines 205-213.
RECURSIVE AddArtifacts(_, _)
AddArtifacts(deps, files) ==
  IF files = {} THEN deps
  ELSE LET f == CHOOSE x \in files : TRUE
       IN AddArtifacts(Put(deps, ManifestKey(f), FilePrefix \o f), files \ {f})

\* Lines 226-236: the pin the host version selects, <<>> for none.
MetaPinFor(currentVersion) ==
  IF UnityGreater(currentVersion, UnityVersion(Unity6Threshold))
  THEN PinMetaNew
  ELSE IF UnityGreater(currentVersion, UnityVersion(Unity2022Threshold))
  THEN PinMetaMid
  ELSE <<>>

\* host is the string getUnityVersion returned.
MetaPin(host) == IF host = <<>> THEN <<>> ELSE MetaPinFor(UnityVersion(host))

\* The entry is written whether or not a pin was chosen.
PutAlways(deps, name, pin) == Put(deps, name, pin)

PutPin(deps, name, pin) == IF pin = <<>> THEN deps ELSE Put(deps, name, pin)

\* Lines 220-239: the pins of the selected runtime packages.
AddRuntimePins(deps, runtime, host) ==
  PutPin(PutPin(deps, OpenXrMicrosoft,
                IF OpenXrMicrosoft \in runtime THEN PinMicrosoft ELSE <<>>),
         OpenXrMeta,
         IF OpenXrMeta \in runtime THEN MetaPin(host) ELSE <<>>)

\* What the project holds: found now, or as an earlier install left it.
ManifestStates ==
  IF manifest.state = "unread"
  THEN {[state |-> "missing"], [state |-> "present", deps |-> InitialManifest]}
  ELSE {manifest}

HostStates ==
  IF unityVersion.state = "unread"
  THEN {[state |-> "read", str |-> h] : h \in HostVersions}
  ELSE {unityVersion}

InstallPackagesToProject ==
  /\ pc = "downloaded"
  /\ LET moved == {f \in cwdFiles : IsTgz(f)}
     IN /\ cwdFiles' = cwdFiles \ moved
        /\ projectFiles' = moved
        /\ \E m \in ManifestStates :
             IF m.state = "missing"
             THEN /\ manifest' = m
                  /\ UNCHANGED unityVersion
             ELSE IF OpenXrMeta \in requiredOpenXrPackages
             THEN \E h \in HostStates :
                    /\ unityVersion' = h
                    /\ manifest' =
                         [m EXCEPT !.deps =
                            AddRuntimePins(AddArtifacts(@, moved),
                                           requiredOpenXrPackages, h.str)]
             ELSE /\ UNCHANGED unityVersion
                  /\ manifest' =
                       [m EXCEPT !.deps =
                          AddRuntimePins(AddArtifacts(@, moved),
                                         requiredOpenXrPackages, <<>>)]
  /\ pc' = "installed"
  /\ UNCHANGED <<engineVars, walkVars, tgz, budget, logVars, cmpVars>>

(***************************************************************************)
(* The engine under a caller that runs the phases one after another        *)
(***************************************************************************)

Next ==
  \/ FetchFails
  \/ FetchOk
  \/ ResolveBegin
  \/ WalkSkipExternal
  \/ WalkThrows
  \/ WalkReturns
  \/ WalkLeaf
  \/ WalkExpand
  \/ ResolveFinish
  \/ DownloadAndRepackage
  \/ InstallPackagesToProject

Spec == Init /\ [][Next]_vars

\* main has returned: the only fetch failed, an exception reached the catch
\* block, or installPackagesToProject returned.
MainReturned(at, fetchesLeft) ==
  \/ at = "idle" /\ fetchesLeft = 0
  \/ at \in {"resolve_threw", "download_threw", "installed"}

\* The value main returns for a valid project path and a selection that is not
\* empty: 1 from line 54 and from the catch block, 0 from the last line.
ExitCode(at) == IF at = "installed" THEN 0 ELSE 1

\* The engine under the GUI: discover, select, install, start over, discover.
StartOverSpec == StartOverInit /\ [][Next]_vars

\* The engine under a caller that only fetches and resolves.
RepeatNext ==
  \/ FetchFails
  \/ FetchOk
  \/ ResolveBegin
  \/ WalkSkipExternal
  \/ WalkThrows
  \/ WalkReturns
  \/ WalkLeaf
  \/ WalkExpand
  \/ ResolveFinish

RepeatSpec == RepeatInit /\ [][RepeatNext]_vars

\* main returned 0 after the installation and the tool is started again: a
\* new MRTKToolCore fetches the feed, the project and the working directory are
\* as the last run left them.
NewRun ==
  /\ pc = "installed"
  /\ budget.install > 0
  /\ mrtkComponentVersions' = AddAssets(EmptyMap, githubJsonParsed)
  /\ allPackages' = NewPackages(mrtkComponentVersions')
  /\ requiredMrtkPackages' = EmptyMap
  /\ resolvedUserSelections' = EmptyMap
  /\ resolvedDependencies' = EmptyMap
  /\ requiredOpenXrPackages' = {}
  /\ selectedIndices' = {}
  /\ processedComponents' = {}
  /\ pendingSelections' = <<>>
  /\ stack' = <<>>
  /\ requested' = {}
  /\ walkedDeps' = {}
  /\ expanded' = <<>>
  /\ lastResolve' = NoResolve
  /\ downloadLog' = <<>>
  /\ pc' = "ready"
  /\ UNCHANGED <<githubJsonParsed, envVars, budget, cmpVars>>

\* The command line run to the end, and run again.
RerunNext ==
  \/ FetchOk
  \/ NewRun
  \/ ResolveBegin
  \/ WalkExpand
  \/ ResolveFinish
  \/ DownloadAndRepackage
  \/ InstallPackagesToProject

RerunSpec == RerunInit /\ [][RerunNext]_vars

\* The calls of isNewerVersion that std::sort (line 131) and the walk (line
\* 425) make, on the pairs of three versions.
CompareSorted ==
  /\ pc = "sort"
  /\ ranking = NoRanking
  /\ ranking' = [done |-> TRUE,
                 aa |-> isNewerVersion(v_old, v_old),
                 ab |-> isNewerVersion(v_old, v_mid),
                 ba |-> isNewerVersion(v_mid, v_old),
                 bc |-> isNewerVersion(v_mid, v_new),
                 ac |-> isNewerVersion(v_old, v_new)]
  /\ UNCHANGED <<engineVars, walkVars, pc, envVars, budget, logVars, v_old,
                 v_new, verdict, hostA, hostB, hostC, hostOrder, guiVars,
                 inputLine, v_mid>>

SortNext == CompareSorted

SortSpec == SortInit /\ [][SortNext]_vars

\* isNewerVersion(v_old, v_new) called once.
Compare ==
  /\ pc = "compare"
  /\ verdict = NoVerdict
  /\ verdict' = isNewerVersion(v_old, v_new)
  /\ UNCHANGED <<engineVars, walkVars, pc, envVars, budget, logVars, v_old,
                 v_new, hostA, hostB, hostC, hostOrder, guiVars,
                 inputLine, sortVars>>

CompareNext == Compare

CompareSpec == CompareInit /\ [][CompareNext]_vars

\* UnityVersion(a) > UnityVersion(b)
HostGreater(a, b) == UnityGreater(UnityVersion(a), UnityVersion(b))

\* operator> applied to the pairs of the three strings.
CompareHosts ==
  /\ pc = "hosts"
  /\ hostOrder = NoOrder
  /\ hostOrder' = [done |-> TRUE,
                   aa |-> HostGreater(hostA, hostA),
                   ab |-> HostGreater(hostA, hostB),
                   ba |-> HostGreater(hostB, hostA),
                   bc |-> HostGreater(hostB, hostC),
                   ac |-> HostGreater(hostA, hostC)]
  /\ UNCHANGED <<engineVars, walkVars, pc, envVars, budget, logVars, v_old,
                 v_new, verdict, hostA, hostB, hostC, guiVars,
                 inputLine, sortVars>>

HostNext == CompareHosts

HostSpec == HostInit /\ [][HostNext]_vars

(***************************************************************************)
(* The prompt of the command line (src/cli_main.cpp, lines 61-77)          *)
(***************************************************************************)

\* ss >> inputIndex, given whether a '-' was read, the characters after the
\* sign and their digits: [ok, val, rest]. Without a digit, and with a value
\* that does not fit an int, the stream fails.
ExtractValue(neg, u, d) ==
  IF d = <<>> \/ DigitsValue(d, 0) = -1
  THEN [ok |-> FALSE, val |-> 0, rest |-> <<>>]
  ELSE [ok |-> TRUE,
        val |-> IF neg THEN 0 - DigitsValue(d, 0) ELSE DigitsValue(d, 0),
        rest |-> SubSeq(u, Len(d) + 1, Len(u))]

ExtractSigned(t) ==
  IF t # <<>> /\ Head(t) \in {"+", "-"}
  THEN ExtractValue(Head(t) = "-", Tail(t), DigitPrefix(Tail(t)))
  ELSE ExtractValue(FALSE, t, DigitPrefix(t))

ExtractInt(s) == ExtractSigned(SkipSpaces(s))

\* while (ss >> inputIndex): the indices pushed onto selectedIndices, the
\* loop ending at the first extraction that fails.
RECURSIVE ReadIndices(_, _, _)
ReadIndices(r, size, acc) ==
  IF ~r.ok THEN acc
  ELSE ReadIndices(ExtractInt(r.rest), size,
                   IF r.val >= 0 /\ r.val < size THEN acc \cup {r.val}
                   ELSE acc)

\* main from the prompt to the test of selectedIndices.empty().
ReadSelection ==
  /\ pc = "ready"
  /\ selectedIndices' =
       ReadIndices(ExtractInt(inputLine), Len(allPackages), {})
  /\ pc' = IF selectedIndices' = {} THEN "nothing_selected" ELSE "selected"
  /\ UNCHANGED <<engineVars, processedComponents, pendingSelections, stack,
                 envVars, budget, logVars, cmpVars>>

InputNext ==
  \/ FetchFails
  \/ FetchOk
  \/ ReadSelection

InputSpec == InputInit /\ [][InputNext]_vars

(***************************************************************************)
(* The GUI (src/gui_main.cpp): the handlers of the frame and of its pages  *)
(* run one at a time on the main thread; every engine call runs on a       *)
(* detached worker thread that ends by queueing an event for the frame.    *)
(***************************************************************************)

FeaturePage ==
  [kind |-> "features", user |-> EmptyMap, deps |-> EmptyMap, log |-> 0]

\* ImportPanel's constructor builds its two lists from the engine's maps.
ImportPage(user, deps) ==
  [kind |-> "import", user |-> user, deps |-> deps, log |-> 0]

ProgressPage ==
  [kind |-> "progress", user |-> EmptyMap, deps |-> EmptyMap, log |-> 0]

CompletePage ==
  [kind |-> "complete", user |-> EmptyMap, deps |-> EmptyMap, log |-> 0]

\* The process is alive: no data race has happened, no null pointer was
\* called through, and no exception left a worker thread (std::terminate).
Alive == gui = "running" /\ pc \notin {"resolve_threw", "download_threw"}

\* The worker has not entered its engine call yet.
Pending(w) == budget[w.kind] = w.ticket

\* The worker is back from its engine call (from the second of the two for
\* an installation) and is about to queue its last event.
Returned(w) ==
  /\ budget[w.kind] < w.ticket
  /\ w.kind = "resolve" => pc = "resolved"
  /\ w.kind = "install" => pc = "installed"

\* Some worker thread is before or inside an engine call.
Busy == \E i \in 1..Len(workers) : ~Returned(workers[i])

\* No worker thread is between its engine call and its wxQueueEvent.
NonePosting == \A i \in 1..Len(workers) : ~Returned(workers[i])

\* std::thread t(...); t.detach(); A thread started while another is before
\* or inside an engine call runs on the same MRTKToolCore without any
\* synchronisation: a data race, after which the program has no defined
\* behaviour and nothing more is modelled.
StartThread(kind) ==
  /\ NonePosting
  /\ budget[kind] > 0
  /\ workers' = Append(workers,
                       [kind |-> kind, ticket |-> budget[kind], posted |-> 0])
  /\ gui' = IF Busy THEN "raced" ELSE gui

\* The thread ends after its wxQueueEvent calls.
EndThread(kind, queued) ==
  /\ \E i \in 1..Len(workers) :
       /\ workers[i].kind = kind
       /\ Returned(workers[i])
       /\ workers' = SubSeq(workers, 1, i - 1)
                       \o SubSeq(workers, i + 1, Len(workers))
  /\ events' = events \o queued

EngineUnchanged ==
  UNCHANGED <<engineVars, walkVars, pc, envVars, budget, logVars, v_old,
              v_new, verdict, hostA, hostB, hostC, hostOrder, inputLine,
              sortVars>>

\* ProjectSelectPanel::OnPathChanged, ValidateProjectPath: the text of the
\* path field changed to a valid or an invalid project path.
OnPathChanged ==
  /\ Alive
  /\ shown = 0
  /\ \E valid \in BOOLEAN : discoverEnabled' = valid
  /\ EngineUnchanged
  /\ UNCHANGED <<gui, book, shown, progressPanel, workers, events>>

\* ProjectSelectPanel::OnDiscover
OnDiscover ==
  /\ Alive
  /\ shown = 0
  /\ discoverEnabled
  /\ discoverEnabled' = FALSE
  /\ StartThread("fetch")
  /\ EngineUnchanged
  /\ UNCHANGED <<book, shown, progressPanel, events>>

\* The thread of OnDiscover inside fetchAvailablePackages.
DiscoverThreadFetchOk ==
  /\ Alive
  /\ \E i \in 1..Len(workers) : workers[i].kind = "fetch" /\ Pending(workers[i])
  /\ FetchOk

DiscoverThreadFetchFails ==
  /\ Alive
  /\ \E i \in 1..Len(workers) : workers[i].kind = "fetch" /\ Pending(workers[i])
  /\ FetchFails

\* wxQueueEvent(mf, new wxThreadEvent(wxEVT_DISCOVERY_COMPLETE))
DiscoverThreadEnds ==
  /\ Alive
  /\ EndThread("fetch", <<"discovery">>)
  /\ EngineUnchanged
  /\ UNCHANGED <<gui, book, shown, progressPanel, discoverEnabled>>

\* MyFrame::OnDiscoveryComplete. With an empty list the button is looked up
\* by the label "Discover Features", which OnDiscover has replaced by
\* "Discovering...": FindWindowByLabel returns NULL and Enable() is called
\* through it.
OnDiscoveryComplete ==
  /\ Alive
  /\ events # <<>> /\ Head(events) = "discovery"
  /\ events' = Tail(events)
  /\ IF allPackages = <<>>
     THEN /\ gui' = "crashed"
          /\ UNCHANGED <<book, shown>>
     ELSE /\ book' = Append(book, FeaturePage)
          /\ shown' = 1
          /\ UNCHANGED gui
  /\ EngineUnchanged
  /\ UNCHANGED <<progressPanel, discoverEnabled, workers>>

\* FeatureSelectPanel::OnGetFeatures with some box checked; the checked
\* indices are the argument the thread passes to resolveDependencies.
OnGetFeatures ==
  /\ Alive
  /\ shown = 1
  /\ StartThread("resolve")
  /\ EngineUnchanged
  /\ UNCHANGED <<book, shown, progressPanel, discoverEnabled, events>>

\* The thread of OnGetFeatures inside resolveDependencies.
ResolveThreadBegin ==
  /\ Alive
  /\ \E i \in 1..Len(workers) :
       workers[i].kind = "resolve" /\ Pending(workers[i])
  /\ ResolveBegin

ResolveThreadExpand == Alive /\ WalkExpand

ResolveThreadFinish == Alive /\ ResolveFinish

\* wxQueueEvent(mainFrame, new wxCommandEvent(wxEVT_RESOLVE_COMPLETE))
ResolveThreadEnds ==
  /\ Alive
  /\ EndThread("resolve", <<"resolve">>)
  /\ EngineUnchanged
  /\ UNCHANGED <<gui, book, shown, progressPanel, discoverEnabled>>

\* MyFrame::OnResolveComplete. ImportPanel's constructor reads the engine's
\* maps on the main thread; with a worker inside an engine call that is a
\* data race.
OnResolveComplete ==
  /\ Alive
  /\ events # <<>> /\ Head(events) = "resolve"
  /\ events' = Tail(events)
  /\ IF Busy
     THEN /\ gui' = "raced"
          /\ UNCHANGED <<book, shown, progressPanel>>
     ELSE /\ book' = book \o <<ImportPage(resolvedUserSelections,
                                           resolvedDependencies),
                                ProgressPage, CompletePage>>
          /\ progressPanel' = [set |-> TRUE, page |-> Len(book) + 1]
          /\ shown' = 2
          /\ UNCHANGED gui
  /\ EngineUnchanged
  /\ UNCHANGED <<discoverEnabled, workers>>

\* ImportPanel::OnGoBack
OnGoBack ==
  /\ Alive
  /\ book[shown + 1].kind = "import"
  /\ shown' = 1
  /\ EngineUnchanged
  /\ UNCHANGED <<gui, book, progressPanel, discoverEnabled, workers, events>>

\* ImportPanel::OnImport and MyFrame::StartInstallation
OnImport ==
  /\ Alive
  /\ book[shown + 1].kind = "import"
  /\ shown' = 3
  /\ StartThread("install")
  /\ EngineUnchanged
  /\ UNCHANGED <<book, progressPanel, discoverEnabled, events>>

\* The thread of StartInstallation inside downloadAndRepackage.
InstallThreadDownload ==
  /\ Alive
  /\ \E i \in 1..Len(workers) :
       workers[i].kind = "install" /\ Pending(workers[i])
  /\ DownloadAndRepackage

\* post_update() after downloadAndRepackage
InstallThreadUpdate ==
  /\ Alive
  /\ pc = "downloaded"
  /\ \E i \in 1..Len(workers) :
       /\ workers[i].kind = "install"
       /\ workers[i].posted = 0
       /\ workers' = [workers EXCEPT ![i].posted = 1]
  /\ events' = Append(events, "update")
  /\ EngineUnchanged
  /\ UNCHANGED <<gui, book, shown, progressPanel, discoverEnabled>>

\* The thread of StartInstallation inside installPackagesToProject.
InstallThreadInstall ==
  /\ Alive
  /\ \E i \in 1..Len(workers) :
       workers[i].kind = "install" /\ workers[i].posted = 1
  /\ InstallPackagesToProject

\* post_update() after installPackagesToProject and
\* wxQueueEvent(this, new wxThreadEvent(wxEVT_INSTALL_COMPLETE))
InstallThreadEnds ==
  /\ Alive
  /\ EndThread("install", <<"update", "complete">>)
  /\ EngineUnchanged
  /\ UNCHANGED <<gui, book, shown, progressPanel, discoverEnabled>>

\* progressPanel->AppendLog(event.GetString()) on the page progressPanel
\* points to.
AppendLog(pages, panel) == [pages EXCEPT ![panel.page + 1].log = @ + 1]

\* MyFrame::OnInstallUpdate
OnInstallUpdate ==
  /\ Alive
  /\ events # <<>> /\ Head(events) = "update"
  /\ events' = Tail(events)
  /\ progressPanel.set
  /\ progressPanel.page < Len(book)
  /\ book' = AppendLog(book, progressPanel)
  /\ EngineUnchanged
  /\ UNCHANGED <<gui, shown, progressPanel, discoverEnabled, workers>>

\* MyFrame::OnInstallComplete
OnInstallComplete ==
  /\ Alive
  /\ events # <<>> /\ Head(events) = "complete"
  /\ events' = Tail(events)
  /\ shown' = 4
  /\ EngineUnchanged
  /\ UNCHANGED <<gui, book, progressPanel, discoverEnabled, workers>>

\* MyFrame::OnStartOver, bound to the Start Over button of every
\* CompletionPanel. The pages are deleted; progressPanel keeps pointing to
\* the deleted ProgressPanel.
OnStartOver ==
  /\ Alive
  /\ book[shown + 1].kind = "complete"
  /\ book' = <<book[1]>>
  /\ shown' = 0
  /\ EngineUnchanged
  /\ UNCHANGED <<gui, progressPanel, discoverEnabled, workers, events>>

GuiNext ==
  \/ OnPathChanged
  \/ OnDiscover
  \/ DiscoverThreadFetchOk
  \/ DiscoverThreadFetchFails
  \/ DiscoverThreadEnds
  \/ OnDiscoveryComplete
  \/ OnGetFeatures
  \/ ResolveThreadBegin
  \/ ResolveThreadExpand
  \/ ResolveThreadFinish
  \/ ResolveThreadEnds
  \/ OnResolveComplete
  \/ OnGoBack
  \/ OnImport
  \/ InstallThreadDownload
  \/ InstallThreadUpdate
  \/ InstallThreadInstall
  \/ InstallThreadEnds
  \/ OnInstallUpdate
  \/ OnInstallComplete
  \/ OnStartOver

GuiSpec == GuiInit /\ [][GuiNext]_vars

(***************************************************************************)
(* Properties                                                              *)
(***************************************************************************)

\* A version of the catalog grammar [0-9]+\.[0-9]+\.[0-9]+(-pre\.[0-9]+)?
CatalogVersion(v) == VersionGroupEnd(v \o TgzExt, 1) = Len(v) + 1

\* The selected component packages at their UserSelection versions.
SelectedNodes ==
  {<<id, resolvedUserSelections[id]>> : id \in DOMAIN resolvedUserSelections}

\* The component a well-formed dependency name stands for.
ComponentOf(depName) ==
  IF StartsWith(depName, OwnNamespace)
  THEN SubSeq(depName, 25, Len(depName)) ELSE depName

\* The nodes the artifact of <<component, version>> requires in the world w
\* (asset name -> what its download yields): its declared dependencies that
\* are neither externally managed nor the bare namespace.
DeclaredBy(w, component, version) ==
  LET a == FirstAssetFor(githubJsonParsed, component, version)
  IN IF a # <<>> /\ a \in DOMAIN w /\ w[a].ok
     THEN {<<ComponentOf(d[1]), d[2]>> :
             d \in {e \in w[a].deps : /\ ~StartsWith(e[1], UnityNamespace)
                                      /\ e[1] # OwnNamespace}}
     ELSE {}

\* Everything the nodes of S transitively require in the world w.
RECURSIVE Reach(_, _)
Reach(w, S) ==
  LET T == S \cup UNION {DeclaredBy(w, r[1], r[2]) : r \in S}
  IN IF T = S THEN S ELSE Reach(w, T)

\* The worlds the run so far cannot tell apart: what was downloaded is as it
\* was found, and one artifact that was not downloaded may declare one
\* dependency.
Worlds ==
  {tgz} \cup
  {Put(tgz, a, [ok |-> TRUE, deps |-> {d}]) :
     a \in {b \in Range(githubJsonParsed) : b \notin DOMAIN tgz},
     d \in DepDecls}

\* r is required at a version of the catalog grammar, and so is another
\* version of its identifier.
AtSeveralVersions(R, r) ==
  /\ CatalogVersion(r[2])
  /\ \E q \in R : q[1] = r[1] /\ q[2] # r[2] /\ CatalogVersion(q[2])

\* TransitiveRequirement holds an entry for r's identifier that r's version
\* is not newer than.
HoldsNewest(r) ==
  /\ r[1] \in DOMAIN requiredMrtkPackages
  /\ ~isNewerVersion(requiredMrtkPackages[r[1]], r[2]).val

Downloaded == {downloadLog[i] : i \in 1..Len(downloadLog)}

\* C2: no dependency declared under com.unity. is recorded in
\* TransitiveRequirement, recursed into, or downloaded by the download phase.
C2_ExternalNeverPulled ==
  /\ \A k \in DOMAIN requiredMrtkPackages : ~StartsWith(k, UnityNamespace)
  /\ \A n \in walkedDeps : ~StartsWith(n, UnityNamespace)
  /\ \A r \in requested : ~StartsWith(r[1], UnityNamespace)
  /\ \A f \in Downloaded :
       /\ ~StartsWith(f, UnityNamespace)
       /\ ~StartsWith(extractComponentInfo(f)[1], UnityNamespace)

\* C2 witness: an inspected artifact declared a com.unity. dependency before
\* another dependency, the walk went on to the other one, and the download
\* phase has run.
C2_Witness ==
  /\ pc = "downloaded"
  /\ downloadLog # <<>>
  /\ \E a \in DOMAIN tgz :
       tgz[a].deps = {<<DepUnity, V100>>, <<DepCore, V120>>}
  /\ <<Core, V120>> \in requested

\* Two completed resolveDependencies calls in a row had the same selection
\* and catalog.
SameResolveTwice ==
  /\ lastResolve.done
  /\ lastResolve.prev.done
  /\ lastResolve.sel = lastResolve.prev.sel
  /\ lastResolve.feed = lastResolve.prev.feed
  /\ lastResolve.packages = lastResolve.prev.packages

\* C3: resolve called twice in a row with the same selection, catalog and
\* artifact contents produces the same TransitiveRequirement, UserSelection
\* and dependency-only view.
C3_ResolveIdempotent ==
  SameResolveTwice =>
    /\ lastResolve.required = lastResolve.prev.required
    /\ lastResolve.user = lastResolve.prev.user
    /\ lastResolve.deps = lastResolve.prev.deps

\* C3 witness: the same selection was resolved twice and the result holds a
\* dependency that is not selected.
C3_Witness ==
  /\ SameResolveTwice
  /\ DOMAIN lastResolve.deps # {}
  /\ DOMAIN lastResolve.user # {}

\* The versions the latest feed lists for an identifier.
FeedVersionsOf(id) ==
  {ParsedAsset(a)[2] :
     a \in {b \in Range(githubJsonParsed) :
              EndsWith(b, TgzExt) /\ ParsedAsset(b)[1] = id}}

\* The versions the catalog holds for an identifier: those of every feed
\* fetched so far.
CatalogVersionsOf(id) == Range(mrtkComponentVersions[id])

\* C4: from a resolve until the next fetch, the version UserSelection records
\* for a selected component package is one the catalog holds for it, and
\* neither the catalog nor the latest feed lists a newer one, whatever the
\* order and the duplicates of the feed.
C4_UserSelectionIsMaximum ==
  pc \notin {"idle", "ready"} =>
    \A id \in DOMAIN resolvedUserSelections :
      /\ resolvedUserSelections[id] \in CatalogVersionsOf(id)
      /\ \A v \in CatalogVersionsOf(id) \cup FeedVersionsOf(id) :
           ~isNewerVersion(resolvedUserSelections[id], v).val

\* C4 witness: the feed listed core at 1.2.0, 1.0.0 and 1.2.0 again, and the
\* selection of core was resolved to 1.2.0.
C4_Witness ==
  /\ pc = "resolved"
  /\ Core \in DOMAIN resolvedUserSelections
  /\ Len(mrtkComponentVersions[Core]) = 3
  /\ FeedVersionsOf(Core) = {V100, V120}
  /\ CatalogVersionsOf(Core) = {V100, V120}
  /\ resolvedUserSelections[Core] = V120

\* The pieces of s between separators, empty pieces included.
RECURSIVE SplitAll(_, _)
SplitAll(s, sep) ==
  IF Find(s, sep) = Npos THEN <<s>>
  ELSE <<Before(s, Find(s, sep))>> \o SplitAll(After(s, Find(s, sep)), sep)

MainElements(v) == SplitAll(Before(v, Find(v, "-")), ".")

HasTag(v) == Find(v, "-") # Npos

TagElements(v) == SplitAll(After(v, Find(v, "-")), ".")

AllDigits(e) == e # <<>> /\ \A i \in 1..Len(e) : e[i] \in Range(Digits)

RECURSIVE StripZeros(_)
StripZeros(e) ==
  IF Len(e) > 1 /\ Head(e) = "0" THEN StripZeros(Tail(e)) ELSE e

\* Two runs of digits compared as the integers they denote, however large.
NumLess(a, b) ==
  IF Len(StripZeros(a)) # Len(StripZeros(b))
  THEN Len(StripZeros(a)) < Len(StripZeros(b))
  ELSE StrLess(StripZeros(a), StripZeros(b))

NumEq(a, b) == StripZeros(a) = StripZeros(b)

\* Two tag elements: numerically when both are integers, as strings otherwise.
ElementLess(a, b) ==
  IF AllDigits(a) /\ AllDigits(b) THEN NumLess(a, b) ELSE StrLess(a, b)

ElementEq(a, b) ==
  IF AllDigits(a) /\ AllDigits(b) THEN NumEq(a, b) ELSE a = b

\* Element-wise comparison: the first difference decides, and on equal shared
\* elements the longer sequence is newer.
SequenceOrder(xs, ys, Less(_, _), Eq(_, _)) ==
  LET D == {i \in 1..Min(Len(xs), Len(ys)) : ~Eq(xs[i], ys[i])}
  IN IF D # {}
     THEN IF Less(xs[CHOOSE i \in D : \A j \in D : i <= j],
                  ys[CHOOSE i \in D : \A j \in D : i <= j])
          THEN "newer" ELSE "older"
     ELSE IF Len(ys) > Len(xs) THEN "newer"
     ELSE IF Len(xs) > Len(ys) THEN "older"
     ELSE "same"

\* The four-step reference comparator.
ReferenceNewer(old, new) ==
  LET main == SequenceOrder(MainElements(old), MainElements(new),
                            NumLess, NumEq)
  IN IF main # "same" THEN main = "newer"
     ELSE IF ~HasTag(new) THEN HasTag(old)
     ELSE IF ~HasTag(old) THEN FALSE
     ELSE SequenceOrder(TagElements(old), TagElements(new),
                        ElementLess, ElementEq) = "newer"

\* A dotted-integer main sequence and, after the first '-', a tag of
\* non-empty elements.
WellFormed(v) ==
  /\ \A i \in 1..Len(MainElements(v)) : AllDigits(MainElements(v)[i])
  /\ HasTag(v) => \A i \in 1..Len(TagElements(v)) : TagElements(v)[i] # <<>>

\* "2147483647"
IntMaxDigits == <<"2", "1", "4", "7", "4", "8", "3", "6", "4", "7">>

FitsInt(e) == ~NumLess(IntMaxDigits, e)

MainFitsInt(v) == \A i \in 1..Len(MainElements(v)) : FitsInt(MainElements(v)[i])

TagFitsInt(v) ==
  HasTag(v) =>
    \A i \in 1..Len(TagElements(v)) :
      AllDigits(TagElements(v)[i]) => FitsInt(TagElements(v)[i])

Compared == verdict # NoVerdict

\* C5: on every pair of well-formed version strings isNewer returns what the
\* four-step reference comparator returns.
C5_EqualsReference ==
  (Compared /\ WellFormed(v_old) /\ WellFormed(v_new)) =>
    verdict = Returns(ReferenceNewer(v_old, v_new))

\* C5 within the range of int: on every pair of well-formed version strings
\* whose integer elements are at most 2147483647 isNewer returns what the
\* four-step reference comparator returns (true for "3.2.0-pre.5" against
\* "3.2.0" and against "3.2.0-pre.12", false for "3.2.0" against itself); with
\* a larger integer element it returns that or std::stoi throws
\* std::out_of_range, and it throws whenever the element is in a main sequence.
C5_EqualsReferenceWithinInt ==
  (Compared /\ WellFormed(v_old) /\ WellFormed(v_new)) =>
    /\ verdict.exc \in {"none", "out_of_range"}
    /\ verdict.exc = "none" => verdict.val = ReferenceNewer(v_old, v_new)
    /\ (MainFitsInt(v_old) /\ MainFitsInt(v_new)
          /\ TagFitsInt(v_old) /\ TagFitsInt(v_new)) => verdict.exc = "none"
    /\ ~(MainFitsInt(v_old) /\ MainFitsInt(v_new))
         => verdict.exc = "out_of_range"
    /\ (v_old = Ver320pre5 /\ v_new \in {Ver320, Ver320pre12})
         => verdict = Returns(TRUE)
    /\ (v_old = Ver320 /\ v_new = Ver320) => verdict = Returns(FALSE)

\* C5 witness: "3.2.0-pre.5" was compared with the well-formed
\* "3.2.0-pre.2147483648" and std::stoi threw std::out_of_range.
C5_Witness ==
  /\ v_old = Ver320pre5
  /\ v_new = Ver320preBig
  /\ WellFormed(v_old) /\ WellFormed(v_new)
  /\ verdict = Throws("out_of_range")

NonNumericMain(v) ==
  \E i \in 1..Len(MainElements(v)) : ~AllDigits(MainElements(v)[i])

\* C6: isNewer fails with a parse error whenever an element of the main
\* sequence of either argument is not purely numeric.
C6_ParseErrorOnNonNumericMain ==
  (Compared /\ (NonNumericMain(v_old) \/ NonNumericMain(v_new))) =>
    verdict.exc # "none"

\* C6 witness: "1a.0.0" was compared and isNewer returned a boolean.
C6_Witness ==
  /\ v_old = Ver1a00
  /\ v_new = Ver320
  /\ verdict = Returns(TRUE)

\* The artifacts install found that were produced for a requirement, as
\* <<file name, identifier>>.
InstalledArtifacts ==
  {<<f, RegexNamespace \o ParsedAsset(f)[1]>> :
     f \in {g \in projectFiles \cap AssetNames : ParsedAsset(g)[1] # <<>>}}

\* C7: for every artifact named <identifier>-<version>.tgz that install
\* found, with any version of the catalog grammar, the manifest holds the key
\* <identifier> with the value file:MixedReality/<file name>.
C7_ManifestKeyRoundTrip ==
  (pc = "installed" /\ manifest.state = "present") =>
    \A e \in InstalledArtifacts :
      /\ e[2] \in DOMAIN manifest.deps
      /\ manifest.deps[e[2]] = FilePrefix \o e[1]

\* C7 witness: the artifact of core 1.2.0-pre.1 was installed under a key
\* that still carries the main version.
C7_Witness ==
  /\ pc = "installed"
  /\ manifest.state = "present"
  /\ AssetCore120pre1 \in projectFiles
  /\ (RegexNamespace \o Core \o <<"-">> \o V120) \in DOMAIN manifest.deps
  /\ (RegexNamespace \o Core) \notin DOMAIN manifest.deps

\* C8: a failure at one node of the walk (a malformed dependency version or
\* identifier among them) stops only that node: resolve never ends by an
\* exception leaving the walk.
C8_FailureIsLocal == pc # "resolve_threw"

\* C8 witness: core was required at 1.0.0, an artifact declared it at "x",
\* and the exception of std::stoi left resolve.
C8_Witness ==
  /\ pc = "resolve_threw"
  /\ <<Core, VBad>> \in requested
  /\ <<Core, V100>> \in requested

\* The identifier/version pairs of the selection and of the dependency
\* declarations read so far.
DeclaredPairs ==
  SelectedNodes
    \cup UNION {DeclaredBy(tgz, r[1], r[2]) : r \in Range(expanded)}

RECURSIVE SumLen(_)
SumLen(st) == IF st = <<>> THEN 0 ELSE Len(Head(st)) + SumLen(Tail(st))

\* Every node key the walk can meet.
NodeKeys ==
  {ComponentKey(c, v) :
     c \in {ParsedAsset(a)[1] : a \in AssetNames}
             \cup {ComponentOf(d[1]) : d \in DepDecls},
     v \in {ParsedAsset(a)[2] : a \in AssetNames} \cup {d[2] : d \in DepDecls}}

\* What is left of a walk: the nodes not yet expanded, each able to add
\* MaxDeps loop iterations, and the loop iterations still to run.
WalkMeasure ==
  (Cardinality(NodeKeys) - Cardinality(processedComponents)) * (MaxDeps + 1)
    + Len(pendingSelections) + SumLen(stack)

ExpansionsBounded ==
  /\ pc \notin {"idle", "ready"} => Len(expanded) <= Cardinality(DeclaredPairs)
  /\ \A i, j \in 1..Len(expanded) : expanded[i] = expanded[j] => i = j
  /\ processedComponents \subseteq NodeKeys
  /\ pc = "walk" => WalkMeasure >= 0

WalkStepDecreases ==
  (pc = "walk" /\ pc' = "walk") => WalkMeasure' < WalkMeasure

C10_RuntimeSelectionExact ==
  pc = "resolved" =>
    requiredOpenXrPackages = SelectedOfType(selectedIndices, "OpenXR")

\* C10 witness: the second resolve selected no runtime package and
\* RuntimeSelection still holds the one the first resolve selected.
C10_Witness ==
  /\ pc = "resolved"
  /\ lastResolve.prev.done
  /\ SelectedOfType(selectedIndices, "OpenXR") = {}
  /\ requiredOpenXrPackages # {}

\* C11: after a resolve that follows an earlier resolve on the same engine,
\* UserSelection holds exactly the component packages of the new selection,
\* every entry of TransitiveRequirement is a node the new selection
\* transitively requires through the artifacts downloaded, and the
\* dependency-only view is TransitiveRequirement without the identifiers of
\* UserSelection: no entry comes from the earlier selection alone.
C11_RebuiltFromScratch ==
  (pc = "resolved" /\ lastResolve.prev.done) =>
    /\ DOMAIN resolvedUserSelections =
         SelectedOfType(selectedIndices, "MRTK")
    /\ \A c \in DOMAIN requiredMrtkPackages :
         <<c, requiredMrtkPackages[c]>> \in Reach(tgz, SelectedNodes)
    /\ DOMAIN resolvedDependencies =
         (DOMAIN requiredMrtkPackages) \ (DOMAIN resolvedUserSelections)
    /\ \A c \in DOMAIN resolvedDependencies :
         resolvedDependencies[c] = requiredMrtkPackages[c]

\* C11 witness: the earlier resolve required an identifier, as a dependency,
\* that the later resolve of another selection does not hold anywhere.
C11_Witness ==
  /\ pc = "resolved"
  /\ lastResolve.prev.done
  /\ lastResolve.prev.sel # selectedIndices
  /\ DOMAIN requiredMrtkPackages # {}
  /\ \E c \in DOMAIN lastResolve.prev.deps :
       c \notin DOMAIN requiredMrtkPackages

\* C12: when the project has no manifest document, install leaves the
\* artifacts where the download phase left them, does not replace the
\* project's package directory, and does not end the way a successful install
\* ends.
C12_ManifestMissingAbortsInstallOnly ==
  [][(pc = "downloaded" /\ pc' # pc /\ manifest'.state = "missing") =>
       /\ cwdFiles' = cwdFiles
       /\ projectFiles' = projectFiles
       /\ pc' # "installed"]_vars

\* C12 witness: install found no manifest, and the artifacts are in the
\* project's package directory and no longer in the working directory.
C12_Witness ==
  /\ pc = "installed"
  /\ manifest.state = "missing"
  /\ projectFiles # {}
  /\ \A f \in projectFiles : f \notin cwdFiles

\* The release types in the platform's order: alpha, beta, final, patch.
TypeRank(c) ==
  CASE c = "a" -> 1 [] c = "b" -> 2 [] c = "f" -> 3 [] c = "p" -> 4
    [] OTHER -> 0

\* The position of the release type letter of a host tag, 0 for none.
HostTypePos(h) ==
  IF \E i \in 1..Len(h) : TypeRank(h[i]) > 0
  THEN CHOOSE i \in 1..Len(h) :
         TypeRank(h[i]) > 0 /\ \A j \in 1..(i - 1) : TypeRank(h[j]) = 0
  ELSE 0

\* <<major, minor, patch, releaseType, buildNumber>> of a host tag written
\* major.minor.patch[<type><build>], the numbers as digit strings; a tag with
\* no release type is final with build 0, and the empty tag is 0.0.0.
HostTupleAt(h, pos) ==
  IF h = <<>> THEN << <<"0">>, <<"0">>, <<"0">>, "f", <<"0">> >>
  ELSE IF pos = 0 THEN SplitAll(h, ".") \o << "f", <<"0">> >>
  ELSE SplitAll(SubSeq(h, 1, pos - 1), ".")
         \o << h[pos], SubSeq(h, pos + 1, Len(h)) >>

HostTuple(h) == HostTupleAt(h, HostTypePos(h))

\* The strict lexicographic order on the 5-tuples.
TupleGreater(x, y) ==
  IF ~NumEq(x[1], y[1]) THEN NumLess(y[1], x[1])
  ELSE IF ~NumEq(x[2], y[2]) THEN NumLess(y[2], x[2])
  ELSE IF ~NumEq(x[3], y[3]) THEN NumLess(y[3], x[3])
  ELSE IF x[4] # y[4] THEN TypeRank(x[4]) > TypeRank(y[4])
  ELSE NumLess(y[5], x[5])

StrictlyAbove(a, b) == TupleGreater(HostTuple(a), HostTuple(b))

\* The Meta OpenXR entry of the manifest is the one the project had.
MetaEntryUntouched ==
  manifest.deps[OpenXrMeta] = InitialManifest[OpenXrMeta]

\* The Meta OpenXR entry install leaves for the host tag h.
MetaEntryFor(h) ==
  IF h # <<>> /\ StrictlyAbove(h, Unity6Threshold)
  THEN manifest.deps[OpenXrMeta] = PinMetaNew
  ELSE IF h # <<>> /\ StrictlyAbove(h, Unity2022Threshold)
  THEN manifest.deps[OpenXrMeta] = PinMetaMid
  ELSE MetaEntryUntouched

C14_HostOrderIsLexicographic ==
  hostOrder.done =>
    /\ hostOrder.ab = StrictlyAbove(hostA, hostB)
    /\ hostOrder.ba = StrictlyAbove(hostB, hostA)
    /\ hostOrder.bc = StrictlyAbove(hostB, hostC)
    /\ hostOrder.ac = StrictlyAbove(hostA, hostC)
    /\ ~hostOrder.aa
    /\ ~(hostOrder.ab /\ hostOrder.ba)
    /\ (hostOrder.ab /\ hostOrder.bc) => hostOrder.ac
    /\ <<hostA, hostB>> \in {<<Unity2022b1, Unity2022a1>>,
                             <<Unity2022, Unity2022b1>>,
                             <<Unity2022p1, Unity2022>>,
                             <<Unity6, Unity2022>>}
         => (hostOrder.ab /\ ~hostOrder.ba)

\* C14 witness: 2022.3.5p1, 2022.3.5f1 and 2022.3.5b1 were compared and came
\* out in that order.
C14_Witness ==
  /\ hostOrder.done
  /\ hostA = Unity2022p1
  /\ hostB = Unity2022
  /\ hostC = Unity2022b1
  /\ hostOrder.ab /\ hostOrder.bc /\ hostOrder.ac

\* The two fixed runtime package identifiers.
RuntimeIdentifiers == {OpenXrMicrosoft, OpenXrMeta}

\* C15: neither runtime identifier appears in requiredMrtkPackages, is the
\* component of a walk invocation, is a declared name the dependency loop
\* recursed into, or is fetched by the download phase.
C15_RuntimeNeverInGraph ==
  \A r \in RuntimeIdentifiers :
    /\ r \notin DOMAIN requiredMrtkPackages
    /\ r \notin walkedDeps
    /\ \A q \in requested : q[1] # r
    /\ \A i \in 1..Len(downloadLog) : ~StartsWith(downloadLog[i], r)

\* C15 witness: a package.json declared com.microsoft.mixedreality.openxr,
\* the walk recursed into it, and it is a key of requiredMrtkPackages when
\* the download phase has run.
C15_Witness ==
  /\ pc = "downloaded"
  /\ OpenXrMicrosoft \in walkedDeps
  /\ <<OpenXrMicrosoft, V100>> \in requested
  /\ OpenXrMicrosoft \in DOMAIN requiredMrtkPackages
  /\ OpenXrMicrosoft \in DOMAIN resolvedDependencies

\* The file name of the source snapshot of a version of the special
\* dependency.
SnapshotFile(version) == UrlFilename(SnapshotUrl(version))

\* The positions of the download log that fetched a source snapshot.
SnapshotFetches ==
  {i \in 1..Len(downloadLog) : EndsWith(downloadLog[i], TarGzExt)}

\* C16, the download phase: no file the walk fetched is a snapshot, and a
\* download phase whose requiredMrtkPackages holds the special dependency
\* fetches exactly one snapshot, the one of the version requiredMrtkPackages
\* ended with, which is not older than any version of it the walk was asked
\* for, and fetches no release asset for it.
SnapshotOnceInDownloadPhase ==
  /\ \A a \in DOMAIN tgz : ~EndsWith(a, TarGzExt)
  /\ (pc \in {"downloaded", "download_threw", "installed"}
        /\ GraphicsTools \in DOMAIN requiredMrtkPackages) =>
       /\ Cardinality(SnapshotFetches) = 1
       /\ \A i \in SnapshotFetches :
            downloadLog[i] = SnapshotFile(requiredMrtkPackages[GraphicsTools])
       /\ \A i \in 1..Len(downloadLog) :
            extractComponentInfo(downloadLog[i])[1] # GraphicsTools
       /\ \A q \in requested :
            q[1] = GraphicsTools =>
              ~isNewerVersion(requiredMrtkPackages[GraphicsTools], q[2]).val

\* C16, the walk: a step of the walk fetches nothing but a release asset, into
\* the temporary file.
WalkFetchesNoSnapshot ==
  pc = "walk" =>
    /\ downloadLog' = downloadLog
    /\ (cwdFiles' \ cwdFiles) \subseteq {TempFile}
    /\ (DOMAIN tgz' \ DOMAIN tgz) \subseteq AssetNames

\* C16: nothing is fetched from the source-snapshot location during the
\* walk, and the download phase fetches the snapshot of the special
\* dependency exactly once, for the version requiredMrtkPackages ended with,
\* and never through a release asset.
C16_SnapshotOnceAfterResolve ==
  [](SnapshotOnceInDownloadPhase) /\ [][WalkFetchesNoSnapshot]_vars

\* C16 witness: the walk was asked for two versions of the special
\* dependency and the download phase fetched the snapshot of the newer one
\* after a release asset.
C16_Witness ==
  /\ pc = "downloaded"
  /\ <<GraphicsTools, V100>> \in requested
  /\ <<GraphicsTools, V120>> \in requested
  /\ Len(downloadLog) > 1
  /\ \E i \in 1..Len(downloadLog) : downloadLog[i] = SnapshotFile(V120)
  /\ RepackagedName(V120) \in cwdFiles

\* The release asset file the download phase fetches for an entry of
\* requiredMrtkPackages, <<>> for none.
FinalAssetOf(name) ==
  UrlFilename(findDownloadUrlForComponent(name, requiredMrtkPackages[name]))

\* C17: when the snapshot lacks the expected subdirectory, no repackaged
\* archive of the special dependency is left behind, and the download phase
\* still fetches the release asset of every other entry of
\* requiredMrtkPackages that has one.
C17_MissingSubdirectoryIsLocal ==
  pc = "download_threw" =>
    /\ RepackagedName(requiredMrtkPackages[GraphicsTools]) \notin cwdFiles
    /\ \A name \in (DOMAIN requiredMrtkPackages) \ {GraphicsTools} :
         FinalAssetOf(name) # <<>> => FinalAssetOf(name) \in Downloaded

\* C17 witness: the snapshot lacked the subdirectory, the repackaged archive
\* exists, and the release asset of core was never fetched.
C17_Witness ==
  /\ pc = "download_threw"
  /\ RepackagedName(requiredMrtkPackages[GraphicsTools]) \in cwdFiles
  /\ downloadLog = <<SnapshotFile(requiredMrtkPackages[GraphicsTools])>>
  /\ Core \in DOMAIN requiredMrtkPackages
  /\ FinalAssetOf(Core) # <<>>
  /\ FinalAssetOf(Core) \notin cwdFiles

\* A step in which a fetch returned false: a fetch was spent and the list of
\* selectable packages did not grow.
FailedFetchStep ==
  /\ budget'.fetch < budget.fetch
  /\ allPackages' = allPackages

\* C18: a failed fetch aborts the run: the caller does not go on to the
\* selection of packages, from which resolve, download and install follow.
C18_FailedFetchAbortsRun ==
  [][FailedFetchStep => pc' \in {"idle", "installed"}]_vars

\* C18 witness: after an installation and Start Over the second fetch failed,
\* and the selection page is open on the list of the first fetch.
C18_Witness ==
  /\ pc = "ready"
  /\ budget.fetch = 0
  /\ budget.resolve = 0
  /\ lastResolve.done
  /\ manifest.state # "unread"
  /\ Len(allPackages) = Cardinality(DOMAIN mrtkComponentVersions) + 2

\* The identifiers and versions the model's feeds are built from.
GrammarIdentifiers == {Core, Input}

GrammarVersions == {V100, V120, V120pre1}

\* The (identifier, version) pairs of the assets of a feed whose whole name
\* is org.mixedrealitytoolkit.<identifier>-<version>.tgz.
GrammarPairs(feed) ==
  {p \in GrammarIdentifiers \X GrammarVersions :
     \E i \in 1..Len(feed) :
       feed[i] = OwnNamespace \o <<".">> \o p[1] \o <<"-">> \o p[2] \o TgzExt}

\* The (identifier, version) pairs the catalog holds.
CatalogPairs ==
  UNION {{<<id, v>> : v \in Range(mrtkComponentVersions[id])} :
           id \in DOMAIN mrtkComponentVersions}

\* C19: after a successful fetch the catalog holds exactly the pairs of the
\* assets of the fetched feed whose name matches the filename grammar.
C19_CatalogIsGrammarPairsOfFeed ==
  [][allPackages' # allPackages => CatalogPairs' = GrammarPairs(githubJsonParsed')]_vars

\* C19 witness: the second fetch succeeded on a feed with no input asset, and
\* the catalog still holds input 1.0.0 of the first feed.
C19_Witness ==
  /\ pc = "ready"
  /\ budget.fetch = 0
  /\ Len(allPackages) > Cardinality(DOMAIN mrtkComponentVersions) + 2
  /\ GrammarPairs(githubJsonParsed) = {<<Core, V100>>, <<Core, V120pre1>>}
  /\ <<Input, V100>> \in CatalogPairs

\* The list is the n sorted component identifiers followed by the two runtime
\* packages.
ListShape(list, ids, n) ==
  /\ Len(list) = n + 2
  /\ \A i \in 1..n : list[i].type = "MRTK" /\ list[i].identifier = ids[i]
  /\ \A i \in (n + 1)..(n + 2) : list[i].type = "OpenXR"
  /\ {list[i].identifier : i \in (n + 1)..(n + 2)} = RuntimeIdentifiers
  /\ \A i, j \in 1..Len(list) :
       list[i].identifier = list[j].identifier => i = j
  /\ \A i, j \in 1..Len(list) :
       (list[i].type = "MRTK" /\ list[j].type = "OpenXR") => i < j

\* C20: once a fetch has succeeded, the list of selectable packages is one
\* entry per catalog identifier in sorted order followed by the two runtime
\* entries, with no identifier twice and every component before every
\* runtime package.
C20_SelectableListShape ==
  allPackages # <<>> =>
    ListShape(allPackages, SortedSeq(DOMAIN mrtkComponentVersions),
              Cardinality(DOMAIN mrtkComponentVersions))

\* C20 witness: after Start Over a second fetch succeeded, core is listed
\* twice and a runtime package precedes a component.
C20_Witness ==
  /\ pc = "ready"
  /\ budget.fetch = 0
  /\ \E i, j \in 1..Len(allPackages) :
       /\ i < j
       /\ allPackages[i].identifier = Core
       /\ allPackages[j].identifier = Core
  /\ \E i, j \in 1..Len(allPackages) :
       /\ i < j
       /\ allPackages[i].type = "OpenXR"
       /\ allPackages[j].type = "MRTK"

\* The worker threads that are before or inside an engine call.
InFlight == {i \in 1..Len(workers) : ~Returned(workers[i])}

\* C21: in the GUI at most one worker thread is before or inside a call of
\* the shared engine at any time.
C21_WorkersSerialized == Cardinality(InFlight) <= 1

\* C21 witness: Get Features was clicked while the thread of the previous
\* click was inside resolveDependencies.
C21_Witness ==
  /\ gui = "raced"
  /\ pc = "walk"
  /\ Len(workers) = 2
  /\ workers[1].kind = "resolve"
  /\ workers[2].kind = "resolve"
  /\ InFlight = {1, 2}

\* Every entry of requiredMrtkPackages that has a release asset or is the
\* special dependency has its archive in the project.
ArtifactsInstalled ==
  \A name \in DOMAIN requiredMrtkPackages :
    IF name = GraphicsTools
    THEN RepackagedName(requiredMrtkPackages[name]) \in projectFiles
    ELSE FinalAssetOf(name) # <<>> => FinalAssetOf(name) \in projectFiles

\* C22: the command line returns 1 when the feed could not be fetched and
\* when an exception left resolve, download or install, and returns 0 only
\* when the run succeeded: the artifacts are in the project and the manifest
\* was written.
C22_ExitCodeTellsSuccess ==
  MainReturned(pc, budget.fetch) =>
    /\ (pc # "installed") => ExitCode(pc) = 1
    /\ ExitCode(pc) = 0 => (manifest.state = "present" /\ ArtifactsInstalled)

\* C22 witness: the project has no manifest.json, nothing was written, and
\* main returned 0.
C22_Witness ==
  /\ MainReturned(pc, budget.fetch)
  /\ ExitCode(pc) = 0
  /\ manifest.state = "missing"
  /\ requiredMrtkPackages # EmptyMap

\* The numbers of a typed line, without the spaces.
TypedTokens(line) == Range(SplitAll(line, " ")) \ {<<>>}

\* The indices of a list of the given size that a typed line names.
ValidTyped(line, size) ==
  {i \in 0..(size - 1) :
     \E w \in TypedTokens(line) : AllDigits(w) /\ NumEq(w, <<Digits[i + 1]>>)}

\* C23: an index that is out of range is skipped on its own: the selection
\* handed to resolve holds every index of the typed line that is in range.
C23_OutOfRangeSkippedAlone ==
  pc \in {"selected", "nothing_selected"} =>
    selectedIndices = ValidTyped(inputLine, Len(allPackages))

\* C23 witness: an index beyond the range of int was typed before index 2,
\* and index 2 is not part of the selection.
C23_Witness ==
  /\ pc = "selected"
  /\ selectedIndices = {0}
  /\ 2 \in ValidTyped(inputLine, Len(allPackages))
  /\ Len(SplitAll(inputLine, " ")[2]) > 10

\* The walk is called with a requirement whose identifier is already held at
\* a version that is not older.
Dominated ==
  /\ Calls
  /\ ~SubstrThrows
  /\ Component \in DOMAIN requiredMrtkPackages
  /\ ~isNewerVersion(requiredMrtkPackages[Component], Version).val

\* Every entry stays, and changes only to a version that isNewer ranks
\* strictly above the one it held.
EntriesOnlyRise ==
  \A c \in DOMAIN requiredMrtkPackages :
    /\ c \in DOMAIN requiredMrtkPackages'
    /\ \/ requiredMrtkPackages'[c] = requiredMrtkPackages[c]
       \/ /\ isNewerVersion(requiredMrtkPackages[c],
                             requiredMrtkPackages'[c]).val
          /\ ~isNewerVersion(requiredMrtkPackages'[c],
                              requiredMrtkPackages[c]).val

\* A dominated requirement is neither recorded nor inspected nor recursed
\* into.
DominatedIsDropped ==
  Dominated =>
    /\ requiredMrtkPackages' = requiredMrtkPackages
    /\ processedComponents' = processedComponents
    /\ expanded' = expanded
    /\ tgz' = tgz
    /\ Len(stack') <= Len(stack)

\* A step records at most one identifier, at the version of the call.
OneEntryPerCall ==
  \A c \in DOMAIN requiredMrtkPackages' :
    (c \notin DOMAIN requiredMrtkPackages
       \/ requiredMrtkPackages'[c] # requiredMrtkPackages[c])
      => (Calls /\ c = Component /\ requiredMrtkPackages'[c] = Version)

NewestWinsStep ==
  pc = "walk" => (EntriesOnlyRise /\ DominatedIsDropped /\ OneEntryPerCall)

\* C24: during one resolve run TransitiveRequirement holds one version per
\* identifier; every step of the walk keeps every entry, changes an entry
\* only to a version that is strictly newer per isNewer, and a requirement
\* that is equal or older is neither recorded nor recursed into.
C24_NewestWinsAtEveryMerge == [][NewestWinsStep]_vars

\* C24 witness: resolve ended after an entry recorded at one version was
\* overwritten by a strictly newer one, and a requirement of a version older
\* than the entry of its identifier was dropped.
C24_Witness ==
  /\ pc = "resolved"
  /\ \E i, j \in 1..Len(expanded) :
       /\ i < j
       /\ expanded[i][1] = expanded[j][1]
       /\ isNewerVersion(expanded[i][2], expanded[j][2]).val
       /\ requiredMrtkPackages[expanded[j][1]] = expanded[j][2]
  /\ \E r \in requested :
       /\ r \notin Range(expanded)
       /\ isNewerVersion(r[2], requiredMrtkPackages[r[1]]).val

\* The manifest holds an entry that refers to the temporary inspection file.
TempFileInManifest ==
  /\ manifest.state = "present"
  /\ \E k \in DOMAIN manifest.deps : manifest.deps[k] = FilePrefix \o TempFile

\* C25: after resolve returned no temporary inspection artifact is left in
\* the working directory, and install neither moves one into the project nor
\* writes a manifest entry for one.
C25_TempFileNeverOutlivesInspection ==
  /\ pc \in {"resolved", "downloaded"} => TempFile \notin cwdFiles
  /\ TempFile \notin projectFiles
  /\ ~TempFileInManifest

\* C25 witness: an inspection download failed during the walk, and install
\* moved the temporary file into the project and entered it in the manifest.
C25_Witness ==
  /\ pc = "installed"
  /\ \E a \in DOMAIN tgz : ~tgz[a].ok
  /\ TempFile \in projectFiles
  /\ TempFileInManifest

\* The inspected artifact of some identifier, at the version that
\* TransitiveRequirement holds for it, declares c.
DeclaredAtFinalVersion(c) ==
  \E p \in DOMAIN requiredMrtkPackages :
    \E d \in DeclaredBy(tgz, p, requiredMrtkPackages[p]) : d[1] = c

\* C26: after resolve every identifier of TransitiveRequirement is a key of
\* UserSelection or is declared by the artifact of some identifier at the
\* version TransitiveRequirement holds for it.
C26_FinalRequirementsJustified ==
  pc = "resolved" =>
    \A c \in DOMAIN requiredMrtkPackages :
      c \in DOMAIN resolvedUserSelections \/ DeclaredAtFinalVersion(c)

\* C26 witness: resolve ended with an identifier that was declared only by
\* the artifact of a version that a newer one superseded.
C26_Witness ==
  /\ pc = "resolved"
  /\ \E c \in DOMAIN requiredMrtkPackages :
       /\ c \notin DOMAIN resolvedUserSelections
       /\ ~DeclaredAtFinalVersion(c)
       /\ \E e \in Range(expanded) :
            /\ isNewerVersion(e[2], requiredMrtkPackages[e[1]]).val
            /\ \E d \in DeclaredBy(tgz, e[1], e[2]) : d[1] = c

\* The file a manifest value of the form file:MixedReality/<file> names.
FileOfEntry(value) == SubSeq(value, Len(FilePrefix) + 1, Len(value))

\* C27: after every complete run against the project, every manifest
\* dependency of the form file:MixedReality/<file> names a file of the
\* project's installed package directory.
C27_NoDanglingManifestEntries ==
  (pc = "installed" /\ manifest.state = "present") =>
    \A k \in DOMAIN manifest.deps :
      StartsWith(manifest.deps[k], FilePrefix)
        => FileOfEntry(manifest.deps[k]) \in projectFiles

\* C27 witness: a second complete run installed another selection, and the
\* manifest still holds the entry of an artifact of the first run whose file
\* the second run removed.
C27_Witness ==
  /\ pc = "installed"
  /\ budget.install = 0
  /\ manifest.state = "present"
  /\ projectFiles # {}
  /\ \E k \in DOMAIN manifest.deps :
       /\ StartsWith(manifest.deps[k], FilePrefix)
       /\ FileOfEntry(manifest.deps[k]) \notin projectFiles

\* The dependencies object install reads from the manifest.
DepsBefore ==
  IF manifest.state = "present" THEN manifest.deps ELSE InitialManifest

\* The keys install may write: those whose entry refers to an artifact now in
\* the installed package directory, and the selected runtime packages.
InstallKeys ==
  {k \in DOMAIN manifest'.deps :
     \E f \in projectFiles' : manifest'.deps[k] = FilePrefix \o f}
    \cup requiredOpenXrPackages

\* The host version leaves Meta OpenXR without a pin: it is unknown, or not
\* strictly above 2022.3.0f1.
HostTooOldOrUnknown(h) == h = <<>> \/ ~StrictlyAbove(h, Unity2022Threshold)

\* A step of install that rewrites the manifest keeps every entry, changes
\* and adds only entries under InstallKeys, and leaves the Meta OpenXR entry
\* when no pin applies.
InstallFrameStep ==
  (pc = "downloaded" /\ pc' = "installed" /\ manifest'.state = "present") =>
    /\ \A k \in DOMAIN DepsBefore :
         /\ k \in DOMAIN manifest'.deps
         /\ k \notin InstallKeys => manifest'.deps[k] = DepsBefore[k]
    /\ \A k \in DOMAIN manifest'.deps : k \in DOMAIN DepsBefore \cup InstallKeys
    /\ (OpenXrMeta \in requiredOpenXrPackages
          /\ HostTooOldOrUnknown(unityVersion'.str)
          /\ OpenXrMeta \in DOMAIN DepsBefore)
         => manifest'.deps[OpenXrMeta] = DepsBefore[OpenXrMeta]

ShownPage == book[shown + 1]

\* C29: the Import page on display lists UserSelection and the dependency
\* view of the most recent resolution, also after Go back and a second
\* resolution, and every progress line is appended to the progress page that
\* is on display during the installation.
C29_ImportPageShowsLatestResolution ==
  gui = "running" =>
    /\ (ShownPage.kind = "import" /\ pc = "resolved") =>
         /\ ShownPage.user = resolvedUserSelections
         /\ ShownPage.deps = resolvedDependencies
    /\ ShownPage.kind = "progress" =>
         \A i \in 1..Len(book) : book[i].log > 0 => i = shown + 1

\* C29 witness: after Go back and a second resolution with another
\* selection the installation was started from the Import page of the first
\* resolution, and its progress line went to a page that is not on display.
C29_Witness ==
  /\ gui = "running"
  /\ Len(book) = 8
  /\ book[3].kind = "import" /\ book[6].kind = "import"
  /\ book[3].user # book[6].user
  /\ book[6].user = resolvedUserSelections
  /\ shown = 3
  /\ book[4].log = 0
  /\ book[7].log > 0

\* Every comparison of the three versions returned.
RankingReturned ==
  \A f \in {"aa", "ab", "ba", "bc", "ac"} : ranking[f].exc = "none"

\* C30: isNewer is a strict weak order on the versions the resolver compares
\* or sorts: no version is newer than itself, two versions are never each
\* newer than the other, and isNewer(a, b) and isNewer(b, c) imply
\* isNewer(a, c).
C30_IsNewerStrictWeakOrder ==
  (ranking.done /\ RankingReturned) =>
    /\ ~ranking.aa.val
    /\ ~(ranking.ab.val /\ ranking.ba.val)
    /\ (ranking.ab.val /\ ranking.bc.val) => ranking.ac.val

\* C30 witness: 3.2.0-pre.5 ranks below 3.2.0-pre.12 by number,
\* 3.2.0-pre.12 below 3.2.0-pre.1a by characters, and 3.2.0-pre.5 does not
\* rank below 3.2.0-pre.1a.
C30_Witness ==
  /\ ranking.done /\ RankingReturned
  /\ v_old = Ver320pre5 /\ v_mid = Ver320pre12 /\ v_new = Ver320pre1a
  /\ ranking.ab.val /\ ranking.bc.val /\ ~ranking.ac.val

=============================================================================
